---- MODULE Spec2Model ----
(***************************************************************************)
(* devkit: configuration validation (devkit-core/src/validation.rs), the   *)
(* application context (devkit-core/src/context.rs), the command entries   *)
(* (devkit-core/src/config.rs), the task executor and the command         *)
(* templates (devkit-tasks), and command discovery (devkit-core/src/       *)
(* discovery.rs and the Makefile, npm and script providers).               *)
(*                                                                         *)
(* A Rust String is a sequence of one-character strings, so format!,       *)
(* contains, split and join are computed character by character.  The      *)
(* strings of the model hold ASCII characters only: a character is one     *)
(* byte, and str::len is the number of characters.                         *)
(***************************************************************************)
EXTENDS Integers, Sequences, FiniteSets, TLC

VARIABLES
    config,     \* the Config handed to validate_config / held by AppContext; before
                \* AppContext::new, the packages as the directories hold them
    report,     \* the ValidationReport of the last validate_config call
    built_graph, \* the dependency graph built by that call (node -> normalized deps)
    pc,         \* position of the caller: "start", "validated", "ctx", "running",
                \* "waves", "done", "resolved", "returned"
    ctx,        \* outcome of AppContext::new: "none", "built", "failed"
    opts,       \* the run_cmd arguments: [cmd_name, packages, parallel]
    queue,      \* run_cmd: the nodes still to be handled, dependencies first
    results,    \* run_cmd: the ordered list of task results
    spawned,    \* run_cmd: nodes for which a child process was spawned, in order
    running,    \* run_cmd: the node whose child process is running, or None
    wave,       \* run_cmd, parallel mode: the nodes of the current wave, in order
    handles,    \* run_cmd, parallel mode: one task handle per launched node
    template,   \* resolve_template: the template argument
    variables,  \* resolve_template: the explicit variable table
    env_vars,   \* resolve_template: the environment table
    resolved,   \* resolve_template: the Result returned, or None before the call
    providers,  \* DiscoveryEngine.providers, in registration order
    cache,      \* DiscoveryEngine.cache
    disk,       \* what the providers find on disk
    calls,      \* the provider methods invoked so far, in order
    returned,   \* the slice the last discover call returned, or None
    used,       \* how often discover and refresh were called and the disk changed
    args,       \* a library function called on its own: the arguments, or None
    ret         \* what that call returned, or None before it returned

parVars == <<wave, handles>>
tplVars == <<template, variables, env_vars, resolved>>
discVars == <<providers, cache, disk, calls, returned, used>>
libVars == <<args, ret>>

vars == <<config, report, built_graph, pc, ctx, opts, queue, results, spawned, running,
          parVars, tplVars, discVars, libVars>>

\* Option::None
None == [kind |-> "None"]

----------------------------------------------------------------------------
(* Bounds of the model                                                     *)

\* longest dependency list of one command entry
MaxDeps == 2
\* size of a configuration: dependency references + port bindings + infra patterns
MaxConfigSize == 3

----------------------------------------------------------------------------
(* Strings                                                                 *)

COLON == ":"
ARROW == <<" ", "-", ">", " ">>

\* str::contains(char)
Contains(s, ch) == \E i \in 1..Len(s) : s[i] = ch

\* Vec::contains / slice position of an element
SeqContains(seq, x) == \E i \in 1..Len(seq) : seq[i] = x
Position(seq, x) == CHOOSE i \in 1..Len(seq) : seq[i] = x /\ \A j \in 1..(i-1) : seq[j] # x

\* str::split(ch).collect::<Vec<_>>()
RECURSIVE Split(_, _)
Split(s, ch) ==
    IF ~Contains(s, ch) THEN <<s>>
    ELSE LET i == CHOOSE k \in 1..Len(s) : s[k] = ch /\ \A j \in 1..(k-1) : s[j] # ch
         IN <<SubSeq(s, 1, i-1)>> \o Split(SubSeq(s, i+1, Len(s)), ch)

\* [String]::join(sep)
RECURSIVE Join(_, _)
Join(parts, sep) ==
    IF Len(parts) = 0 THEN <<>>
    ELSE IF Len(parts) = 1 THEN parts[1]
    ELSE parts[1] \o sep \o Join(Tail(parts), sep)

\* format!("{}:{}", a, b)
FormatNode(a, b) == a \o <<COLON>> \o b

\* all orders in which a HashMap may iterate over the key set S
RECURSIVE Perms(_)
Perms(S) ==
    IF S = {} THEN {<<>>}
    ELSE UNION {{<<x>> \o p : p \in Perms(S \ {x})} : x \in S}

----------------------------------------------------------------------------
(* Command entries (config.rs)                                             *)

\* CmdEntry::Simple(s)
Simple(s) == [kind |-> "Simple", s |-> s]
\* CmdEntry::Full(CmdConfig { default, deps, variants })
Full(d, ds, vs) == [kind |-> "Full", default |-> d, deps |-> ds, variants |-> vs]

\* CmdEntry::default_cmd
default_cmd(entry) ==
    IF entry.kind = "Simple" THEN entry.s ELSE entry.default

\* variant that never looks into the variants map
variant_default_only(entry, name) == default_cmd(entry)

\* variant that treats a Simple entry as one without a string
variant_full_only(entry, name) ==
    IF entry.kind = "Simple" THEN <<>>
    ELSE IF name \in DOMAIN entry.variants THEN entry.variants[name]
    ELSE entry.default

\* CmdEntry::variant
variant(entry, name) ==
    IF entry.kind = "Simple" THEN entry.s
    ELSE IF name \in DOMAIN entry.variants THEN entry.variants[name]
    ELSE entry.default

\* deps that drops the declared list
deps_dropped(entry) == <<>>

\* CmdEntry::deps
deps(entry) ==
    IF entry.kind = "Simple" THEN <<>> ELSE entry.deps

----------------------------------------------------------------------------
(* The configurations the model is run on                                  *)

\* the (package, command) pairs a configuration handed to validate_config may
\* define; a TOML key may be quoted, so a command name may contain ':'
NodeSlots ==
    << <<<<"a">>, <<"x">>>>, <<<<"a">>, <<"x", ":", "y">>>>, <<<<"b">>, <<"x">>>> >>

\* the (package, command) pairs of the configurations that are run
RunSlots ==
    << <<<<"a">>, <<"x">>>>, <<<<"b">>, <<"x">>>>, <<<<"b">>, <<"y">>>> >>

\* dependency references as written: bare "pkg" and qualified "pkg:cmd"
Refs(slots) ==
    {slots[i][1] : i \in 1..Len(slots)}
        \cup {FormatNode(slots[i][1], slots[i][2]) : i \in 1..Len(slots)}

CmdString == <<"m", "k">>
NoVariants == [n \in {} |-> <<>>]

Min(a, b) == IF a < b THEN a ELSE b

\* sequences over S of length at most n
RECURSIVE SeqsUpTo(_, _)
SeqsUpTo(S, n) ==
    IF n = 0 THEN {<<>>}
    ELSE LET shorter == SeqsUpTo(S, n - 1)
         IN shorter \cup {Append(q, x) : q \in {r \in shorter : Len(r) = n - 1}, x \in S}

\* what a slot may hold with `budget` references left: nothing, a Simple entry,
\* or a Full entry with one to MaxDeps dependency references
EntryChoices(slots, budget) ==
    {None, Simple(CmdString)}
        \cup {Full(CmdString, ds, NoVariants)
                : ds \in SeqsUpTo(Refs(slots), Min(MaxDeps, budget)) \ {<<>>}}

EntryCost(e) == IF e.kind = "Full" THEN Len(e.deps) ELSE 0

\* HashMap<String, PackageConfig> of one choice per slot
PackagesOf(slots, asg) ==
    LET present(p) == {i \in 1..Len(slots) : slots[i][1] = p /\ asg[i].kind # "None"}
        slotOf(p, c) == CHOOSE i \in present(p) : slots[i][2] = c
    IN [p \in {slots[i][1] : i \in {j \in 1..Len(slots) : asg[j].kind # "None"}} |->
            [name |-> p,
             dir_name |-> p,
             cmd  |-> [c \in {slots[i][2] : i \in present(p)} |-> asg[slotOf(p, c)]]]]

\* workspace patterns: a valid one, an unclosed class, a class that holds the
\* separator (one pattern, but no valid path component), a recursive wildcard
\* that is not a whole component
GoodPattern == <<"p", "/", "*">>
BadPattern == <<"p", "/", "[">>
ClassOverSeparator == <<"[", "/", "]">>
RecursiveInName == <<"p", "*", "*">>

\* global.services.ports: service name -> port
PortTables ==
    { [s \in {} |-> 0],
      [s \in {<<"w">>} |-> 3000],
      [s \in {<<"w">>, <<"v">>} |-> 3000],
      [s \in {<<"w">>, <<"v">>} |-> IF s = <<"w">> THEN 3000 ELSE 3001] }

\* global configurations with their size
Globals ==
    { [workspaces |-> [packages |-> pk, infra |-> inf], services |-> [ports |-> pt]]
        : pk \in {<<GoodPattern>>, <<BadPattern>>, <<ClassOverSeparator>>},
          inf \in {<<>>, <<BadPattern>>, <<RecursiveInName>>},
          pt \in PortTables }

GlobalCost(g) ==
    Cardinality(DOMAIN g.services.ports) + Len(g.workspaces.infra)
        + (IF g.workspaces.packages = <<GoodPattern>> THEN 0 ELSE 1)

\* Option::Some(v)
Some(v) == [kind |-> "Some", v |-> v]

----------------------------------------------------------------------------
(* validation.rs                                                           *)

\* ValidationReport::new
NewReport == [errors |-> <<>>, warnings |-> <<>>]

\* is_valid that also counts warnings
is_valid_warnings_block(r) == Len(r.errors) = 0 /\ Len(r.warnings) = 0

\* ValidationReport::is_valid
is_valid(r) == Len(r.errors) = 0

\* ValidationReport::add_error
add_error(r, error) == [r EXCEPT !.errors = Append(@, error)]

\* ValidationReport::add_warning
add_warning(r, warning) == [r EXCEPT !.warnings = Append(@, warning)]

\* std::path::is_separator
is_separator(ch) == ch = "/"

\* the number of '*' in a row from position i on
RECURSIVE StarRun(_, _)
StarRun(chars, i) ==
    IF i <= Len(chars) /\ chars[i] = "*" THEN 1 + StarRun(chars, i + 1) ELSE 0

\* the scan of glob::Pattern::new from position i on: TRUE when it returns a
\* PatternError.  More than two '*' in a row are an error; "**" must be a
\* whole path component; a '[' must open a class that is closed by a ']' after
\* at least one character (after the '!' of a negated class)
RECURSIVE PatternScanIsErr(_, _)
PatternScanIsErr(chars, i) ==
    IF i > Len(chars) THEN FALSE
    ELSE IF chars[i] = "*"
    THEN LET count == StarRun(chars, i)
             j == i + count
         IN IF count > 2 THEN TRUE
            ELSE IF count = 2
            THEN IF j = 3 \/ is_separator(chars[i - 1])
                 THEN IF j <= Len(chars) /\ is_separator(chars[j])
                      THEN PatternScanIsErr(chars, j + 1)
                      ELSE IF j = Len(chars) + 1 THEN FALSE
                      ELSE TRUE
                 ELSE TRUE
            ELSE PatternScanIsErr(chars, j)
    ELSE IF chars[i] = "["
    THEN IF i + 3 <= Len(chars) /\ chars[i + 1] = "!"
         THEN LET rest == SubSeq(chars, i + 3, Len(chars))
              IN IF Contains(rest, "]")
                 THEN PatternScanIsErr(chars, i + Position(rest, "]") + 3)
                 ELSE TRUE
         ELSE IF i + 2 <= Len(chars) /\ chars[i + 1] # "!"
         THEN LET rest == SubSeq(chars, i + 2, Len(chars))
              IN IF Contains(rest, "]")
                 THEN PatternScanIsErr(chars, i + Position(rest, "]") + 2)
                 ELSE TRUE
         ELSE TRUE
    ELSE PatternScanIsErr(chars, i + 1)

\* glob::Pattern::new(pattern).is_err()
GlobPatternIsErr(pattern) == PatternScanIsErr(pattern, 1)

\* Path::join (PathBuf::push): an absolute path replaces the root; otherwise a
\* separator is added when the root is not empty and does not end in one
PathJoin(root, path) ==
    IF path # <<>> /\ is_separator(path[1]) THEN path
    ELSE IF root # <<>> /\ ~is_separator(root[Len(root)]) THEN root \o <<"/">> \o path
    ELSE root \o path

\* glob::glob(pattern).is_err(): the pattern as a whole is compiled first, then
\* each of its path components
GlobIsErr(pattern) ==
    \/ GlobPatternIsErr(pattern)
    \/ \E k \in 1..Len(Split(pattern, "/")) : GlobPatternIsErr(Split(pattern, "/")[k])

\* one loop of validate_glob_patterns: an error of `kind` for each bad pattern
RECURSIVE CheckPatterns(_, _, _, _)
CheckPatterns(patterns, kind, i, r) ==
    IF i > Len(patterns) THEN r
    ELSE CheckPatterns(patterns, kind, i + 1,
            IF GlobPatternIsErr(patterns[i])
            THEN add_error(r, [kind |-> kind, pattern |-> patterns[i]])
            ELSE r)

validate_glob_patterns(cfg, r) ==
    CheckPatterns(cfg.global.workspaces.infra, "InvalidInfraPattern", 1,
        CheckPatterns(cfg.global.workspaces.packages, "InvalidGlobPattern", 1, r))

\* dependency_exists: split on ':', exactly two parts, both looked up
dependency_exists(cfg, dep_ref) ==
    LET parts == Split(dep_ref, COLON)
    IN IF Len(parts) # 2 THEN FALSE
       ELSE /\ parts[1] \in DOMAIN cfg.packages
            /\ parts[2] \in DOMAIN cfg.packages[parts[1]].cmd

\* dep_node without the expansion of the "package" shorthand
dep_node_verbatim(dep, cmd_name) == dep

\* the graph node of a dependency reference declared by command cmd_name
dep_node(dep, cmd_name) ==
    IF Contains(dep, COLON) THEN dep ELSE FormatNode(dep, cmd_name)

\* "Invalid dependency '{dep}' in {pkg}:{cmd} - dependency not found"
InvalidDependency(dep, pkg_name, cmd_name) ==
    [kind |-> "InvalidDependency", dep |-> dep, source |-> FormatNode(pkg_name, cmd_name)]

\* "Circular dependency detected: {cycle}"
CircularDependency(cycle) == [kind |-> "CircularDependency", chain |-> cycle]

\* HashMap::insert
Insert(m, k, v) == [x \in DOMAIN m \cup {k} |-> IF x = k THEN v ELSE m[x]]

\* the loop over cmd_entry.deps(): acc is [report, deps]
RECURSIVE ScanDeps(_, _, _, _, _, _)
ScanDeps(cfg, pkg_name, cmd_name, ds, i, acc) ==
    IF i > Len(ds) THEN acc
    ELSE LET dep == ds[i]
             dn == dep_node(dep, cmd_name)
             r == IF ~dependency_exists(cfg, dn)
                  THEN add_error(acc.report, InvalidDependency(dep, pkg_name, cmd_name))
                  ELSE acc.report
         IN ScanDeps(cfg, pkg_name, cmd_name, ds, i + 1,
                     [report |-> r, deps |-> Append(acc.deps, dn)])

\* the loops over config.packages and pkg_config.cmd, visiting the
\* (package, command) pairs in the order iter: acc is [report, graph]
RECURSIVE BuildGraph(_, _, _, _)
BuildGraph(cfg, iter, i, acc) ==
    IF i > Len(iter) THEN acc
    ELSE LET pkg_name == iter[i][1]
             cmd_name == iter[i][2]
             cmd_entry == cfg.packages[pkg_name].cmd[cmd_name]
             node == FormatNode(pkg_name, cmd_name)
             scan == ScanDeps(cfg, pkg_name, cmd_name, deps(cmd_entry), 1,
                              [report |-> acc.report, deps |-> <<>>])
         IN BuildGraph(cfg, iter, i + 1,
                       [report |-> scan.report, graph |-> Insert(acc.graph, node, scan.deps)])

\* detect_cycle::dfs; visited and path are passed back with the result
RECURSIVE dfs(_, _, _, _)
RECURSIVE dfs_deps(_, _, _, _, _)

\* dfs that tests the visited set before the active path
dfs_visited_first(graph, node, visited, path) ==
    IF node \in visited
    THEN [ret |-> None, visited |-> visited, path |-> path]
    ELSE IF SeqContains(path, node)
    THEN LET cycle_start == Position(path, node)
             cycle == SubSeq(path, cycle_start, Len(path)) \o <<node>>
         IN [ret |-> Some(Join(cycle, ARROW)), visited |-> visited, path |-> path]
    ELSE LET v1 == visited \cup {node}
             p1 == Append(path, node)
             r == IF node \in DOMAIN graph
                  THEN dfs_deps(graph, graph[node], 1, v1, p1)
                  ELSE [ret |-> None, visited |-> v1, path |-> p1]
         IN IF r.ret.kind = "Some" THEN r
            ELSE [ret |-> None, visited |-> r.visited,
                  path |-> SubSeq(r.path, 1, Len(r.path) - 1)]

\* dfs that reports the whole active path, lead-in nodes included
dfs_whole_path(graph, node, visited, path) ==
    IF SeqContains(path, node)
    THEN [ret |-> Some(Join(path \o <<node>>, ARROW)), visited |-> visited, path |-> path]
    ELSE IF node \in visited
    THEN [ret |-> None, visited |-> visited, path |-> path]
    ELSE LET v1 == visited \cup {node}
             p1 == Append(path, node)
             r == IF node \in DOMAIN graph
                  THEN dfs_deps(graph, graph[node], 1, v1, p1)
                  ELSE [ret |-> None, visited |-> v1, path |-> p1]
         IN IF r.ret.kind = "Some" THEN r
            ELSE [ret |-> None, visited |-> r.visited,
                  path |-> SubSeq(r.path, 1, Len(r.path) - 1)]

dfs(graph, node, visited, path) ==
    IF SeqContains(path, node)
    THEN LET cycle_start == Position(path, node)
             cycle == SubSeq(path, cycle_start, Len(path)) \o <<node>>
         IN [ret |-> Some(Join(cycle, ARROW)), visited |-> visited, path |-> path]
    ELSE IF node \in visited
    THEN [ret |-> None, visited |-> visited, path |-> path]
    ELSE LET v1 == visited \cup {node}
             p1 == Append(path, node)
             r == IF node \in DOMAIN graph
                  THEN dfs_deps(graph, graph[node], 1, v1, p1)
                  ELSE [ret |-> None, visited |-> v1, path |-> p1]
         IN IF r.ret.kind = "Some" THEN r
            ELSE [ret |-> None, visited |-> r.visited,
                  path |-> SubSeq(r.path, 1, Len(r.path) - 1)]

\* the loop over the dependencies of one node inside dfs
dfs_deps(graph, ds, i, visited, path) ==
    IF i > Len(ds) THEN [ret |-> None, visited |-> visited, path |-> path]
    ELSE LET r == dfs(graph, ds[i], visited, path)
         IN IF r.ret.kind = "Some" THEN r
            ELSE dfs_deps(graph, ds, i + 1, r.visited, r.path)

detect_cycle(graph, start) == dfs(graph, start, {}, <<>>).ret

\* the loop over graph.keys(), in the order keys
RECURSIVE CheckCycles(_, _, _, _)

\* the loop ends at the first node for which a cycle is found
CheckCycles_fail_fast(graph, keys, i, r) ==
    IF i > Len(keys) THEN r
    ELSE LET cycle == detect_cycle(graph, keys[i])
         IN IF cycle.kind = "Some" THEN add_error(r, CircularDependency(cycle.v))
            ELSE CheckCycles(graph, keys, i + 1, r)

CheckCycles(graph, keys, i, r) ==
    IF i > Len(keys) THEN r
    ELSE LET cycle == detect_cycle(graph, keys[i])
         IN CheckCycles(graph, keys, i + 1,
                IF cycle.kind = "Some" THEN add_error(r, CircularDependency(cycle.v)) ELSE r)

EmptyMap == [x \in {} |-> <<>>]

\* validate_command_dependencies: [report, graph]
validate_command_dependencies(cfg, r, iter, keys) ==
    LET built == BuildGraph(cfg, iter, 1, [report |-> r, graph |-> EmptyMap])
    IN [report |-> CheckCycles(built.graph, keys, 1, built.report), graph |-> built.graph]

\* the first loop of validate_port_conflicts: port -> services, in insertion order
RECURSIVE PortMap(_, _, _, _)
PortMap(ports, order, i, port_map) ==
    IF i > Len(order) THEN port_map
    ELSE LET port == ports[order[i]]
             old == IF port \in DOMAIN port_map THEN port_map[port] ELSE <<>>
         IN PortMap(ports, order, i + 1, Insert(port_map, port, Append(old, order[i])))

\* the second loop of validate_port_conflicts
RECURSIVE PortWarnings(_, _, _, _)
PortWarnings(port_map, order, i, r) ==
    IF i > Len(order) THEN r
    ELSE PortWarnings(port_map, order, i + 1,
            IF Len(port_map[order[i]]) > 1
            THEN add_warning(r, [kind |-> "PortConflict", port |-> order[i],
                                 services |-> Join(port_map[order[i]], <<",", " ">>)])
            ELSE r)

validate_port_conflicts(cfg, r, svcs, prts) ==
    PortWarnings(PortMap(cfg.global.services.ports, svcs, 1, EmptyMap), prts, 1, r)

\* the iteration orders of the HashMaps read by one validate_config call
IterOrders(cfg) ==
    LET pkgs == DOMAIN cfg.packages
        cmdsOf(p) == {[i \in 1..Len(co) |-> <<p, co[i]>>] : co \in Perms(DOMAIN cfg.packages[p].cmd)}
        RECURSIVE expand(_)
        expand(po) ==
            IF Len(po) = 0 THEN {<<>>}
            ELSE {h \o t : h \in cmdsOf(po[1]), t \in expand(Tail(po))}
    IN UNION {expand(po) : po \in Perms(pkgs)}

GraphKeys(cfg) ==
    UNION {{FormatNode(p, c) : c \in DOMAIN cfg.packages[p].cmd} : p \in DOMAIN cfg.packages}

PortValues(cfg) == {cfg.global.services.ports[s] : s \in DOMAIN cfg.global.services.ports}

\* validate_config: [report, graph]; the graph is kept for inspection
validate_config(cfg, iter, keys, svcs, prts) ==
    LET r1 == validate_glob_patterns(cfg, NewReport)
        r2 == validate_command_dependencies(cfg, r1, iter, keys)
        r3 == validate_port_conflicts(cfg, r2.report, svcs, prts)
        r4 == IF DOMAIN cfg.packages = {}
              THEN add_warning(r3, [kind |-> "NoPackages"])
              ELSE r3
    IN [report |-> r4, graph |-> r2.graph]

----------------------------------------------------------------------------
(* devkit-tasks/src/template.rs                                            *)

LBRACE == "{"
RBRACE == "}"

\* Result::Ok / the anyhow error of resolve_template: the missing names in the
\* order they were pushed, and their join(", ") as the message carries it
Ok(v) == [kind |-> "Ok", v |-> v]
MissingVariables(missing_vars) ==
    [kind |-> "Err", missing |-> missing_vars, names |-> Join(missing_vars, <<",", " ">>)]

\* the position where a match of \{([^}]+)\} that begins at i ends, or 0: the
\* match runs to the first "}" after i and holds at least one character
MatchEnd(s, i) ==
    IF i > Len(s) \/ s[i] # LBRACE THEN 0
    ELSE LET closers == {j \in (i + 1)..Len(s) : s[j] = RBRACE}
         IN IF closers = {} THEN 0
            ELSE LET j == CHOOSE k \in closers : \A l \in closers : k <= l
                 IN IF j >= i + 2 THEN j ELSE 0

\* Regex::captures_iter: the leftmost non-overlapping matches from position i;
\* cap[0] is the whole placeholder and cap[1] the name between the braces
RECURSIVE captures_iter(_, _)
captures_iter(s, i) ==
    IF i > Len(s) THEN <<>>
    ELSE IF MatchEnd(s, i) = 0 THEN captures_iter(s, i + 1)
    ELSE LET j == MatchEnd(s, i)
         IN <<[placeholder |-> SubSeq(s, i, j), var_name |-> SubSeq(s, i + 1, j - 1)]>>
                \o captures_iter(s, j + 1)

\* str::replace(from, to): every non-overlapping occurrence, left to right
RECURSIVE replace(_, _, _)
replace(s, from, to) ==
    IF Len(s) < Len(from) THEN s
    ELSE IF SubSeq(s, 1, Len(from)) = from
         THEN to \o replace(SubSeq(s, Len(from) + 1, Len(s)), from, to)
         ELSE <<s[1]>> \o replace(Tail(s), from, to)

\* HashMap::get
get(map, key) == IF key \in DOMAIN map THEN Some(map[key]) ELSE None

\* the lookup consults the variable table alone
lookup_vars_only(vars_table, env_table, var_name) == get(vars_table, var_name)

\* the lookup consults the environment table first
lookup_env_first(vars_table, env_table, var_name) ==
    IF get(env_table, var_name).kind = "Some" THEN get(env_table, var_name)
    ELSE get(vars_table, var_name)

\* vars.get(var_name).or_else(|| env_vars.get(var_name))
lookup(vars_table, env_table, var_name) ==
    IF get(vars_table, var_name).kind = "Some" THEN get(vars_table, var_name)
    ELSE get(env_table, var_name)

\* the loop over the captures of the template
RECURSIVE resolve_loop(_, _, _, _, _, _)

\* the loop ends at the first placeholder found in neither table
resolve_loop_fail_fast(caps, i, vars_table, env_table, result, missing_vars) ==
    IF i > Len(caps) THEN [result |-> result, missing_vars |-> missing_vars]
    ELSE LET value == lookup(vars_table, env_table, caps[i].var_name)
         IN IF value.kind = "Some"
            THEN resolve_loop(caps, i + 1, vars_table, env_table,
                              replace(result, caps[i].placeholder, value.v), missing_vars)
            ELSE [result |-> result, missing_vars |-> <<caps[i].var_name>>]

resolve_loop(caps, i, vars_table, env_table, result, missing_vars) ==
    IF i > Len(caps) THEN [result |-> result, missing_vars |-> missing_vars]
    ELSE LET value == lookup(vars_table, env_table, caps[i].var_name)
         IN IF value.kind = "Some"
            THEN resolve_loop(caps, i + 1, vars_table, env_table,
                              replace(result, caps[i].placeholder, value.v), missing_vars)
            ELSE resolve_loop(caps, i + 1, vars_table, env_table,
                              result, Append(missing_vars, caps[i].var_name))

resolve_template(tpl, vars_table, env_table) ==
    LET r == resolve_loop(captures_iter(tpl, 1), 1, vars_table, env_table, tpl, <<>>)
    IN IF r.missing_vars # <<>> THEN MissingVariables(r.missing_vars) ELSE Ok(r.result)

\* extract_vars: the names of the placeholders of the template, in order
extract_vars(tpl) ==
    LET caps == captures_iter(tpl, 1) IN [i \in 1..Len(caps) |-> caps[i].var_name]

----------------------------------------------------------------------------
(* The state machine: a configuration is loaded, then validated directly   *)
(* (validate_config) or through AppContext::new                            *)

NoOpts == [cmd_name |-> <<>>, packages |-> {}, parallel |-> FALSE]

Idle ==
    /\ report = None
    /\ built_graph = EmptyMap
    /\ pc = "start"
    /\ ctx = "none"
    /\ opts = NoOpts
    /\ queue = <<>>
    /\ results = <<>>
    /\ spawned = <<>>
    /\ running = <<>>
    /\ wave = <<>>
    /\ handles = <<>>

\* no template is being resolved
IdleTemplate ==
    /\ template = <<>>
    /\ variables = EmptyMap
    /\ resolved = None

\* no library function is called on its own
IdleLibrary ==
    /\ args = None
    /\ ret = None

\* no discovery engine has been constructed
IdleDiscovery ==
    /\ providers = <<>>
    /\ cache = None
    /\ disk = None
    /\ calls = <<>>
    /\ returned = None
    /\ used = None

MkConfig(g, slots, asg) == [global |-> g, packages |-> PackagesOf(slots, asg)]

Init ==
    /\ \E g \in {h \in Globals : GlobalCost(h) <= MaxConfigSize} :
         LET b0 == MaxConfigSize - GlobalCost(g) IN
         \E e1 \in EntryChoices(NodeSlots, b0) :
         \E e2 \in EntryChoices(NodeSlots, b0 - EntryCost(e1)) :
         \E e3 \in EntryChoices(NodeSlots, b0 - EntryCost(e1) - EntryCost(e2)) :
            config = MkConfig(g, NodeSlots, <<e1, e2, e3>>)
    /\ Idle
    /\ IdleTemplate
    /\ env_vars = EmptyMap
    /\ IdleDiscovery
    /\ IdleLibrary

\* validate_config(&config), as a caller of the library (and the tests) invokes it
ValidateConfig ==
    /\ pc = "start"
    /\ \E iter \in IterOrders(config), keys \in Perms(GraphKeys(config)),
          svcs \in Perms(DOMAIN config.global.services.ports),
          prts \in Perms(PortValues(config)) :
         LET v == validate_config(config, iter, keys, svcs, prts)
         IN /\ report' = v.report
            /\ built_graph' = v.graph
    /\ pc' = "validated"
    /\ UNCHANGED <<libVars, config, ctx, opts, queue, results, spawned, running>>
    /\ UNCHANGED <<parVars, tplVars, discVars>>

\* infer_name_from_cargo_toml: the [package] name of the Cargo.toml of a
\* package directory, when the file is there and parses
infer_name_from_cargo_toml(file) ==
    IF file.kind # "Toml" THEN None ELSE file.name

\* infer_name_from_package_json: the "name" of the package.json of a package
\* directory, when the file is there and parses; "@org/app" gives "app"
infer_name_from_package_json(file) ==
    IF file.kind # "Json" THEN None
    ELSE IF file.name.kind = "None" THEN None
    ELSE LET s == file.name.v
             strip_prefix(ch) == IF s # <<>> /\ s[1] = ch THEN Some(Tail(s)) ELSE None
             stripped == strip_prefix("@")
         IN IF stripped.kind = "Some"
            THEN LET parts == Split(stripped.v, "/")
                 IN Some(IF Len(parts) >= 2 THEN parts[2] ELSE s)
            ELSE Some(s)

\* infer_package_name: Cargo.toml first, then package.json, then the directory
infer_package_name(d, dir_name) ==
    LET cargo == infer_name_from_cargo_toml(d.cargo_toml[dir_name])
        json == infer_name_from_package_json(d.package_json[dir_name])
    IN IF cargo.kind = "Some" THEN cargo.v
       ELSE IF json.kind = "Some" THEN json.v
       ELSE dir_name

\* Config::load_package_config on the directory of pkg
load_package_config(d, pkg) ==
    [pkg EXCEPT !.name = infer_package_name(d, pkg.dir_name)]

\* Config::discover_packages: the directories are inserted, in the order dirs
\* in which the patterns yield them, under the name of the package
RECURSIVE discover_packages(_, _, _, _, _)
discover_packages(pkgs, d, dirs, i, acc) ==
    IF i > Len(dirs) THEN acc
    ELSE LET c == load_package_config(d, pkgs[dirs[i]])
         IN discover_packages(pkgs, d, dirs, i + 1, Insert(acc, c.name, c))

\* Config::load on the files d; without d the package directories hold no
\* Cargo.toml and no package.json, and a package is named after its directory
ConfigLoad(cfg, d, dirs) ==
    IF d = None THEN cfg
    ELSE [cfg EXCEPT !.packages = discover_packages(cfg.packages, d, dirs, 1, EmptyMap)]

\* Config::load fails on a workspace pattern that glob::glob rejects, joined
\* to the repository root (a path without pattern characters)
ConfigLoadFails(cfg) ==
    LET repo_root == <<"/", "r">>
    IN \E i \in 1..Len(cfg.global.workspaces.packages) :
           GlobIsErr(PathJoin(repo_root, cfg.global.workspaces.packages[i]))

\* AppContext::new: load, validate, fail if there are errors
AppContextNew ==
    /\ pc = "start"
    /\ IF ConfigLoadFails(config)
       THEN /\ ctx' = "failed"
            /\ UNCHANGED <<config, report, built_graph>>
       ELSE \E loaded \in {ConfigLoad(config, disk, dirs)
                               : dirs \in IF disk = None THEN {<<>>}
                                          ELSE Perms(DOMAIN config.packages)} :
            \E iter \in IterOrders(loaded), keys \in Perms(GraphKeys(loaded)),
               svcs \in Perms(DOMAIN loaded.global.services.ports),
               prts \in Perms(PortValues(loaded)) :
              LET v == validate_config(loaded, iter, keys, svcs, prts)
              IN /\ config' = loaded
                 /\ report' = v.report
                 /\ built_graph' = v.graph
                 /\ ctx' = IF is_valid(v.report) THEN "built" ELSE "failed"
    /\ pc' = "ctx"
    /\ UNCHANGED <<libVars, opts, queue, results, spawned, running>>
    /\ UNCHANGED <<parVars, tplVars, discVars>>

Next == ValidateConfig \/ AppContextNew

Spec == Init /\ [][Next]_vars

----------------------------------------------------------------------------
(* The task executor: run_cmd(ctx, cmd_name, opts), sequential mode and    *)
(* parallel waves                                                          *)

\* the (package, command) pair a graph key "package:command" names
KeyNode(key) ==
    LET parts == Split(key, COLON) IN <<parts[1], parts[2]>>

\* the nodes a node depends on, in declared order
NodeDeps(cfg, n) ==
    LET ds == deps(cfg.packages[n[1]].cmd[n[2]])
    IN [i \in 1..Len(ds) |-> KeyNode(dep_node(ds[i], n[2]))]

RECURSIVE ExpandAll(_, _, _, _)

\* depth-first post-order expansion that re-visits a node already listed
Expand_no_memo(cfg, n, order) ==
    Append(ExpandAll(cfg, NodeDeps(cfg, n), 1, order), n)

\* depth-first post-order expansion of one node, memoized by node identity
Expand(cfg, n, order) ==
    IF SeqContains(order, n) THEN order
    ELSE Append(ExpandAll(cfg, NodeDeps(cfg, n), 1, order), n)

ExpandAll(cfg, ns, i, order) ==
    IF i > Len(ns) THEN order
    ELSE ExpandAll(cfg, ns, i + 1, Expand(cfg, ns[i], order))

\* the packages whose command table holds cmd_name, restricted to `packages`
\* when that is not empty
Candidates(cfg, cmd_name, packages) ==
    {p \in DOMAIN cfg.packages :
        /\ cmd_name \in DOMAIN cfg.packages[p].cmd
        /\ (packages = {} \/ p \in packages)}

\* the order in which the nodes are handled, for candidates visited in order po
ExecutionOrder(cfg, cmd_name, po) ==
    ExpandAll(cfg, [i \in 1..Len(po) |-> <<po[i], cmd_name>>], 1, <<>>)

Succeeded == [kind |-> "succeeded"]
Failed(status) == [kind |-> "failed", exitStatus |-> status]
Skipped(node) == [kind |-> "skipped", dueTo |-> node]
\* a command failed by its template: no process ran, so there is no exit code
FailedTemplate(missing_vars) ==
    [kind |-> "failed", exitStatus |-> -1, missing |-> missing_vars]

TaskResult(n, outcome) == [package |-> n[1], command |-> n[2], outcome |-> outcome]

\* the exit of a child process: status 0, a non-zero status, or -1 for a
\* child ended by a signal
ExitStatuses == {0, 1, -1}

OutcomeOfExit(status) == IF status = 0 THEN Succeeded ELSE Failed(status)

HasResult(rs, n) == \E i \in 1..Len(rs) : rs[i].package = n[1] /\ rs[i].command = n[2]

ResultOf(rs, n) ==
    rs[CHOOSE i \in 1..Len(rs) : rs[i].package = n[1] /\ rs[i].command = n[2]]

\* the dependencies of n that completed without success, as positions in its list
Unsatisfied(cfg, rs, n) ==
    {i \in 1..Len(NodeDeps(cfg, n)) :
        /\ HasResult(rs, NodeDeps(cfg, n)[i])
        /\ ResultOf(rs, NodeDeps(cfg, n)[i]).outcome.kind # "succeeded"}

\* the failed node a skipped node is skipped for
DueTo(cfg, rs, n) ==
    LET bad == Unsatisfied(cfg, rs, n)
        first == CHOOSE i \in bad : \A j \in bad : i <= j
        o == ResultOf(rs, NodeDeps(cfg, n)[first]).outcome
    IN IF o.kind = "failed" THEN NodeDeps(cfg, n)[first] ELSE o.dueTo

\* the command string of a node: options.variant is None, so the default
CommandString(cfg, n) == default_cmd(cfg.packages[n[1]].cmd[n[2]])

\* the command string of a node after template resolution (a Result)
ResolvedCommand(cfg, n) == resolve_template(CommandString(cfg, n), variables, env_vars)

RunPackages == {RunSlots[i][1] : i \in 1..Len(RunSlots)}
RunCommands == {RunSlots[i][2] : i \in 1..Len(RunSlots)}

\* a command string with one placeholder, and the environments it is run in
TemplatedCmd == <<"m", "{", "v", "}">>
Environments == {EmptyMap, [k \in {<<"v">>} |-> <<"w">>]}

\* the choices of a slot of a configuration that is run: a command string with
\* a placeholder counts as one unit of the configuration's size
RunEntryChoices(slots, budget) ==
    EntryChoices(slots, budget)
        \cup (IF budget < 1 THEN {}
              ELSE {Simple(TemplatedCmd)}
                     \cup {Full(TemplatedCmd, ds, NoVariants)
                             : ds \in SeqsUpTo(Refs(slots), Min(MaxDeps, budget - 1)) \ {<<>>}})

RunEntryCost(e) ==
    EntryCost(e) + (IF e.kind # "None" /\ default_cmd(e) = TemplatedCmd THEN 1 ELSE 0)

InitRun ==
    /\ \E e1 \in RunEntryChoices(RunSlots, MaxConfigSize) :
       \E e2 \in RunEntryChoices(RunSlots, MaxConfigSize - RunEntryCost(e1)) :
       \E e3 \in RunEntryChoices(RunSlots,
                                  MaxConfigSize - RunEntryCost(e1) - RunEntryCost(e2)) :
          config = MkConfig([workspaces |-> [packages |-> <<GoodPattern>>, infra |-> <<>>],
                             services |-> [ports |-> EmptyMap]],
                            RunSlots, <<e1, e2, e3>>)
    /\ Idle
    /\ IdleTemplate
    /\ env_vars \in Environments
    /\ IdleDiscovery
    /\ IdleLibrary

\* run_cmd is entered: the candidates are expanded, dependencies first
RunCmdMode(parallel) ==
    /\ pc = "ctx"
    /\ ctx = "built"
    /\ \E cmd_name \in RunCommands, packages \in SUBSET RunPackages :
         \E po \in Perms(Candidates(config, cmd_name, packages)) :
            /\ opts' = [cmd_name |-> cmd_name, packages |-> packages, parallel |-> parallel]
            /\ queue' = ExecutionOrder(config, cmd_name, po)
    /\ pc' = IF parallel THEN "waves" ELSE "running"
    /\ UNCHANGED <<libVars, config, report, built_graph, ctx, results, spawned, running>>
    /\ UNCHANGED <<parVars, tplVars, discVars>>

\* run_cmd with options.parallel = false
RunCmd == RunCmdMode(FALSE)

\* the next node has a dependency that failed or was skipped: it is skipped
SkipTask ==
    /\ pc = "running"
    /\ running = <<>>
    /\ queue # <<>>
    /\ Unsatisfied(config, results, Head(queue)) # {}
    /\ results' = Append(results,
                         TaskResult(Head(queue), Skipped(DueTo(config, results, Head(queue)))))
    /\ queue' = Tail(queue)
    /\ UNCHANGED <<libVars, config, report, built_graph, pc, ctx, opts, spawned, running>>
    /\ UNCHANGED <<parVars, tplVars, discVars>>

\* the next node has all its dependencies succeeded but its command string
\* keeps an unresolved placeholder: it is failed and no process is spawned
TemplateFails ==
    /\ pc = "running"
    /\ running = <<>>
    /\ queue # <<>>
    /\ Unsatisfied(config, results, Head(queue)) = {}
    /\ ResolvedCommand(config, Head(queue)).kind = "Err"
    /\ results' = Append(results,
                         TaskResult(Head(queue),
                                    FailedTemplate(ResolvedCommand(config, Head(queue)).missing)))
    /\ queue' = Tail(queue)
    /\ UNCHANGED <<libVars, config, report, built_graph, pc, ctx, opts, spawned, running>>
    /\ UNCHANGED <<parVars, tplVars, discVars>>

\* the next node has all its dependencies succeeded and its command string
\* resolves: its process is spawned
SpawnTask ==
    /\ pc = "running"
    /\ running = <<>>
    /\ queue # <<>>
    /\ Unsatisfied(config, results, Head(queue)) = {}
    /\ ResolvedCommand(config, Head(queue)).kind = "Ok"
    /\ running' = Head(queue)
    /\ spawned' = Append(spawned, Head(queue))
    /\ queue' = Tail(queue)
    /\ UNCHANGED <<libVars, config, report, built_graph, pc, ctx, opts, results>>
    /\ UNCHANGED <<parVars, tplVars, discVars>>

\* the running process ends: its result is appended
TaskExit ==
    /\ pc = "running"
    /\ running # <<>>
    /\ \E status \in ExitStatuses :
         results' = Append(results, TaskResult(running, OutcomeOfExit(status)))
    /\ running' = <<>>
    /\ UNCHANGED <<libVars, config, report, built_graph, pc, ctx, opts, queue, spawned>>
    /\ UNCHANGED <<parVars, tplVars, discVars>>

\* run_cmd returns the result list
Finish ==
    /\ pc = "running"
    /\ running = <<>>
    /\ queue = <<>>
    /\ pc' = "done"
    /\ UNCHANGED <<libVars, config, report, built_graph, ctx, opts, queue, results, spawned, running>>
    /\ UNCHANGED <<parVars, tplVars, discVars>>

NextRun ==
    AppContextNew \/ RunCmd \/ SkipTask \/ TemplateFails \/ SpawnTask \/ TaskExit \/ Finish

SpecRun == InitRun /\ [][NextRun]_vars

----------------------------------------------------------------------------
(* The task executor, parallel mode: the coordinating thread computes a    *)
(* wave, launches one task per node of the wave, joins the tasks in launch *)
(* order appending each result, and then computes the next wave            *)

\* run_cmd with options.parallel = true
RunParallel == RunCmdMode(TRUE)

\* the outcome slot of a task whose process has not completed
Pending == [kind |-> "pending"]

\* the handle of a launched task: the node and the outcome slot the task owns
Handle(n, outcome) == [node |-> n, outcome |-> outcome]

\* a node may join a wave although a dependency has not completed successfully
Ready_no_deps(cfg, rs, n) == TRUE

\* every dependency of n has completed successfully
Ready(cfg, rs, n) ==
    \A i \in 1..Len(NodeDeps(cfg, n)) :
        /\ HasResult(rs, NodeDeps(cfg, n)[i])
        /\ ResultOf(rs, NodeDeps(cfg, n)[i]).outcome.kind = "succeeded"

\* skipping that records a node as soon as one of its dependencies has failed
\* or was skipped, although another dependency has not run yet
RECURSIVE SkipBlocked_early(_, _, _, _)
SkipBlocked_early(cfg, q, i, rs) ==
    IF i > Len(q) THEN rs
    ELSE IF Unsatisfied(cfg, rs, q[i]) # {}
         THEN SkipBlocked_early(cfg, q, i + 1,
                                Append(rs, TaskResult(q[i], Skipped(DueTo(cfg, rs, q[i])))))
         ELSE SkipBlocked_early(cfg, q, i + 1, rs)

\* the result list after recording as skipped, in order, the nodes of q that
\* have a dependency which failed or was skipped, once every dependency of the
\* node has its result: the result list stays dependencies first
RECURSIVE SkipBlocked(_, _, _, _)
SkipBlocked(cfg, q, i, rs) ==
    IF i > Len(q) THEN rs
    ELSE IF /\ \A k \in 1..Len(NodeDeps(cfg, q[i])) : HasResult(rs, NodeDeps(cfg, q[i])[k])
            /\ Unsatisfied(cfg, rs, q[i]) # {}
         THEN SkipBlocked(cfg, q, i + 1,
                          Append(rs, TaskResult(q[i], Skipped(DueTo(cfg, rs, q[i])))))
         ELSE SkipBlocked(cfg, q, i + 1, rs)

\* every node of the current wave has been launched and joined
WaveDone ==
    /\ Len(handles) = Len(wave)
    /\ \A i \in 1..Len(wave) : HasResult(results, wave[i])

\* the coordinating thread computes the next wave: the not-yet-run nodes whose
\* dependencies have all completed successfully
NextWave ==
    /\ pc = "waves"
    /\ WaveDone
    /\ queue # <<>>
    /\ LET rs == SkipBlocked(config, queue, 1, results)
           notRun(n) == ~HasResult(rs, n)
           ready(n) == Ready(config, rs, n)
           waits(n) == ~Ready(config, rs, n)
       IN /\ results' = rs
          /\ wave' = SelectSeq(SelectSeq(queue, notRun), ready)
          /\ queue' = SelectSeq(SelectSeq(queue, notRun), waits)
    /\ handles' = <<>>
    /\ UNCHANGED <<libVars, config, report, built_graph, pc, ctx, opts, spawned, running>>
    /\ UNCHANGED <<tplVars, discVars>>

\* the next node of the wave is launched: its process is spawned
LaunchTask ==
    /\ pc = "waves"
    /\ Len(handles) < Len(wave)
    /\ LET n == wave[Len(handles) + 1]
       IN /\ ResolvedCommand(config, n).kind = "Ok"
          /\ handles' = Append(handles, Handle(n, Pending))
          /\ spawned' = Append(spawned, n)
    /\ UNCHANGED <<libVars, config, report, built_graph, pc, ctx, opts, queue, results, running>>
    /\ UNCHANGED <<wave, tplVars, discVars>>

\* the next node of the wave keeps an unresolved placeholder: its task is
\* complete at once, failed, and no process is spawned
LaunchFails ==
    /\ pc = "waves"
    /\ Len(handles) < Len(wave)
    /\ LET n == wave[Len(handles) + 1]
       IN /\ ResolvedCommand(config, n).kind = "Err"
          /\ handles' = Append(handles,
                               Handle(n, FailedTemplate(ResolvedCommand(config, n).missing)))
    /\ UNCHANGED <<libVars, config, report, built_graph, pc, ctx, opts, queue, results, spawned,
                   running>>
    /\ UNCHANGED <<wave, tplVars, discVars>>

\* the process of a launched task ends: the task stores the outcome in its own slot
ProcessExit ==
    /\ pc = "waves"
    /\ \E i \in 1..Len(handles), status \in ExitStatuses :
         /\ handles[i].outcome.kind = "pending"
         /\ handles' = [handles EXCEPT ![i].outcome = OutcomeOfExit(status)]
    /\ UNCHANGED <<libVars, config, report, built_graph, pc, ctx, opts, queue, results, spawned,
                   running>>
    /\ UNCHANGED <<wave, tplVars, discVars>>

\* join returns although the task has not completed
Joinable_always(h) == TRUE

\* join on a handle returns once its task has completed
Joinable(h) == h.outcome.kind # "pending"

\* the coordinating thread joins the next task of the wave and appends its result
JoinTask ==
    /\ pc = "waves"
    /\ Len(handles) = Len(wave)
    /\ \E i \in 1..Len(wave) :
         /\ ~HasResult(results, wave[i])
         /\ \A j \in 1..(i - 1) : HasResult(results, wave[j])
         /\ Joinable(handles[i])
         /\ results' = Append(results, TaskResult(handles[i].node, handles[i].outcome))
    /\ UNCHANGED <<libVars, config, report, built_graph, pc, ctx, opts, queue, spawned, running>>
    /\ UNCHANGED <<parVars, tplVars, discVars>>

\* no node is left: run_cmd returns the result list
FinishWaves ==
    /\ pc = "waves"
    /\ WaveDone
    /\ queue = <<>>
    /\ pc' = "done"
    /\ UNCHANGED <<libVars, config, report, built_graph, ctx, opts, queue, results, spawned, running>>
    /\ UNCHANGED <<parVars, tplVars, discVars>>

NextPar ==
    \/ AppContextNew \/ RunParallel \/ NextWave \/ LaunchTask \/ LaunchFails
    \/ ProcessExit \/ JoinTask \/ FinishWaves

SpecPar == InitRun /\ [][NextPar]_vars

----------------------------------------------------------------------------
(* The task executor in either mode, on configurations of four commands:   *)
(* every acyclic dependency relation in which a command depends on         *)
(* commands that come after it in OrderSlots                               *)

OrderSlots ==
    << <<<<"a">>, <<"x">>>>, <<<<"a">>, <<"y">>>>, <<<<"b">>, <<"x">>>>, <<<<"b">>, <<"y">>>> >>

\* the references slot i may declare: the qualified names of the later slots
LaterRefs(i) ==
    {FormatNode(OrderSlots[k][1], OrderSlots[k][2]) : k \in (i + 1)..Len(OrderSlots)}

\* a dependency list without repetition
NoRepeat(ds) == \A i, j \in 1..Len(ds) : ds[i] = ds[j] => i = j

\* what slot i holds: a Simple entry, or a Full entry with one to MaxDeps
\* different references to later slots; the last slot holds the command string
\* with a placeholder
OrderEntryChoices(i, budget) ==
    LET str == IF i = Len(OrderSlots) THEN TemplatedCmd ELSE CmdString
    IN {Simple(str)}
          \cup {Full(str, ds, NoVariants)
                  : ds \in {q \in SeqsUpTo(LaterRefs(i), Min(MaxDeps, budget)) :
                                q # <<>> /\ NoRepeat(q)}}

InitOrder ==
    /\ \E e1 \in OrderEntryChoices(1, MaxConfigSize) :
       \E e2 \in OrderEntryChoices(2, MaxConfigSize - EntryCost(e1)) :
       \E e3 \in OrderEntryChoices(3, MaxConfigSize - EntryCost(e1) - EntryCost(e2)) :
       \E e4 \in OrderEntryChoices(4, 0) :
          config = MkConfig([workspaces |-> [packages |-> <<GoodPattern>>, infra |-> <<>>],
                             services |-> [ports |-> EmptyMap]],
                            OrderSlots, <<e1, e2, e3, e4>>)
    /\ Idle
    /\ IdleTemplate
    /\ env_vars \in Environments
    /\ IdleDiscovery
    /\ IdleLibrary

NextOrder ==
    \/ AppContextNew \/ RunCmd \/ SkipTask \/ TemplateFails \/ SpawnTask \/ TaskExit \/ Finish
    \/ RunParallel \/ NextWave \/ LaunchTask \/ LaunchFails \/ ProcessExit \/ JoinTask
    \/ FinishWaves

SpecOrder == InitOrder /\ [][NextOrder]_vars

----------------------------------------------------------------------------
(* More string operations of the providers                                 *)

\* char::is_whitespace on ASCII: U+0009 to U+000D (tab, line feed, vertical
\* tab, form feed, carriage return) and the space
IsWhitespace(ch) == ch \in {" ", "\t", "\n", "", "\f", "\r"}

\* str::trim_start / str::trim
RECURSIVE trim_start(_)
trim_start(s) ==
    IF s # <<>> /\ IsWhitespace(s[1]) THEN trim_start(Tail(s)) ELSE s

RECURSIVE trim_end(_)
trim_end(s) ==
    IF s # <<>> /\ IsWhitespace(s[Len(s)]) THEN trim_end(SubSeq(s, 1, Len(s) - 1)) ELSE s

trim(s) == trim_end(trim_start(s))

\* str::starts_with(char)
starts_with(s, ch) == s # <<>> /\ s[1] = ch

\* str::trim_start_matches(char)
RECURSIVE trim_start_matches(_, _)
trim_start_matches(s, ch) ==
    IF starts_with(s, ch) THEN trim_start_matches(Tail(s), ch) ELSE s

\* str::find(char): the position of the first occurrence, or 0
find(s, ch) == IF Contains(s, ch) THEN Position(s, ch) ELSE 0

\* str::contains(&str)
ContainsStr(s, sub) ==
    \E i \in 1..(Len(s) - Len(sub) + 1) : SubSeq(s, i, i + Len(sub) - 1) = sub

\* str::replace(char, &str)
RECURSIVE replace_char(_, _, _)
replace_char(s, ch, to) ==
    IF s = <<>> THEN <<>>
    ELSE (IF s[1] = ch THEN to ELSE <<s[1]>>) \o replace_char(Tail(s), ch, to)

\* str::split_whitespace().next(): the first word, or None
first_word(s) ==
    LET t == trim_start(s)
        stops == {i \in 1..Len(t) : IsWhitespace(t[i])}
    IN IF t = <<>> THEN None
       ELSE IF stops = {} THEN Some(t)
       ELSE Some(SubSeq(t, 1, (CHOOSE i \in stops : \A j \in stops : i <= j) - 1))

\* str::lines(): the pieces between line feeds, a final empty piece dropped and
\* a carriage return before a line feed stripped
RECURSIVE lines(_)
lines(s) ==
    IF s = <<>> THEN <<>>
    ELSE IF ~Contains(s, "\n") THEN <<s>>
    ELSE LET i == Position(s, "\n")
             piece == SubSeq(s, 1, i - 1)
         IN <<IF piece # <<>> /\ piece[Len(piece)] = "\r"
              THEN SubSeq(piece, 1, Len(piece) - 1) ELSE piece>>
                \o lines(SubSeq(s, i + 1, Len(s)))

----------------------------------------------------------------------------
(* discovery.rs: DiscoveredCommand, and what the providers read            *)

\* Category::emoji, one character named after the category
emoji(category) == <<category>>

Workspace == [kind |-> "Workspace"]
Package(name) == [kind |-> "Package", name |-> name]
Global == [kind |-> "Global"]

\* DiscoveredCommand::new(id, label, category).description(..).source(..).scope(..)
DiscoveredCommand(id, label, category, description, source, scope) ==
    [id |-> id, label |-> label, description |-> description, source |-> source,
     category |-> category, scope |-> scope]

\* a file of the repository: absent, a path that exists but cannot be read as
\* text, a text file, or a text file given by the JSON value it parses to
Absent == [kind |-> "Absent"]
Unreadable == [kind |-> "Unreadable"]
Text(content) == [kind |-> "Text", content |-> content]
Json(name, scripts, workspaces) ==
    [kind |-> "Json", name |-> name, scripts |-> scripts, workspaces |-> workspaces]

\* Path::exists
exists(file) == file.kind # "Absent"

\* utils::cmd_exists
cmd_exists(d, name) == name \in d.tools

\* the anyhow error of a provider
ProviderError == [kind |-> "Err"]

----------------------------------------------------------------------------
(* discovery/makefile_provider.rs                                          *)

\* one line of the Makefile: st is [targets, current_comment]
parse_line(st, line) ==
    LET trimmed == trim(line)
        colon_pos == find(trimmed, ":")
        target_part == SubSeq(trimmed, 1, colon_pos - 1)
        comment == trim(trim_start_matches(trimmed, "#"))
    IN IF trimmed = <<>> THEN [st EXCEPT !.current_comment = None]
       ELSE IF starts_with(line, "\t") \/ starts_with(line, " ") THEN st
       ELSE IF starts_with(trimmed, "#")
            THEN IF comment # <<>> THEN [st EXCEPT !.current_comment = Some(comment)]
                 ELSE st
       ELSE IF colon_pos = 0 THEN [st EXCEPT !.current_comment = None]
       ELSE IF starts_with(target_part, ".") \/ starts_with(target_part, "_")
            THEN [st EXCEPT !.current_comment = None]
       ELSE IF ContainsStr(target_part, <<"$", "(">>) \/ ContainsStr(target_part, <<"$", "{">>)
            THEN [st EXCEPT !.current_comment = None]
       ELSE IF first_word(target_part).kind = "Some"
            THEN [targets |-> Append(st.targets,
                                     [name |-> first_word(target_part).v,
                                      comment |-> st.current_comment]),
                  current_comment |-> None]
       ELSE st

RECURSIVE parse_lines(_, _, _)
parse_lines(ls, i, st) ==
    IF i > Len(ls) THEN st ELSE parse_lines(ls, i + 1, parse_line(st, ls[i]))

\* MakefileProvider::parse_makefile_targets
parse_makefile_targets(content) ==
    parse_lines(lines(content), 1, [targets |-> <<>>, current_comment |-> None]).targets

\* MakefileProvider::categorize_target
categorize_target(name) ==
    IF ContainsStr(name, <<"b", "u", "i", "l", "d">>) \/ ContainsStr(name, <<"c", "o", "m", "p", "i", "l", "e">>) THEN "Build"
    ELSE IF ContainsStr(name, <<"t", "e", "s", "t">>) THEN "Test"
    ELSE IF ContainsStr(name, <<"l", "i", "n", "t">>) \/ ContainsStr(name, <<"c", "h", "e", "c", "k">>) THEN "Quality"
    ELSE IF ContainsStr(name, <<"d", "e", "p", "l", "o", "y">>)
            \/ ContainsStr(name, <<"r", "e", "l", "e", "a", "s", "e">>)
            \/ ContainsStr(name, <<"p", "u", "b", "l", "i", "s", "h">>)
         THEN "Deploy"
    ELSE IF ContainsStr(name, <<"d", "e", "v">>)
            \/ ContainsStr(name, <<"s", "e", "r", "v", "e">>)
            \/ ContainsStr(name, <<"w", "a", "t", "c", "h">>)
         THEN "Dev"
    ELSE IF ContainsStr(name, <<"c", "l", "e", "a", "n">>)
            \/ ContainsStr(name, <<"i", "n", "s", "t", "a", "l", "l">>)
            \/ ContainsStr(name, <<"s", "e", "t", "u", "p">>)
         THEN "Other"
    ELSE "Scripts"

\* the command of one Makefile target
MakeCommand(target) ==
    DiscoveredCommand(<<"m", "a", "k", "e", ".">> \o target.name,
                      emoji(categorize_target(target.name)) \o <<" ">> \o target.name,
                      categorize_target(target.name),
                      IF target.comment.kind = "Some" THEN target.comment.v
                      ELSE <<"R", "u", "n", " ", "m", "a", "k", "e", " ", "t", "a", "r", "g", "e", "t", ":", " ">> \o target.name,
                      <<"M", "a", "k", "e", "f", "i", "l", "e">>,
                      Global)

\* MakefileProvider::is_available
MakefileIsAvailable(d) ==
    /\ cmd_exists(d, "make")
    /\ \/ exists(d.files["Makefile"])
       \/ exists(d.files["makefile"])
       \/ exists(d.files["GNUmakefile"])

\* MakefileProvider::discover
MakefileDiscover(d) ==
    LET makefile == IF exists(d.files["Makefile"]) THEN d.files["Makefile"]
                    ELSE IF exists(d.files["makefile"]) THEN d.files["makefile"]
                    ELSE IF exists(d.files["GNUmakefile"]) THEN d.files["GNUmakefile"]
                    ELSE Absent
        targets == parse_makefile_targets(makefile.content)
    IN IF makefile.kind = "Absent" THEN Ok(<<>>)
       ELSE IF makefile.kind # "Text" THEN ProviderError
       ELSE Ok([i \in 1..Len(targets) |-> MakeCommand(targets[i])])

----------------------------------------------------------------------------
(* discovery/script_provider.rs                                            *)

\* str::starts_with(&str)
starts_with_str(s, prefix) ==
    Len(s) >= Len(prefix) /\ SubSeq(s, 1, Len(prefix)) = prefix

\* str::trim_start_matches(&str): the prefix is removed as often as it repeats
RECURSIVE trim_start_matches_str(_, _)
trim_start_matches_str(s, prefix) ==
    IF starts_with_str(s, prefix)
    THEN trim_start_matches_str(SubSeq(s, Len(prefix) + 1, Len(s)), prefix)
    ELSE s

\* Iterator::take(n)
take(seq, n) == SubSeq(seq, 1, Min(Len(seq), n))

\* the literals of extract_description
DescriptionLines == 20
MinCommentLen == 10
MaxCommentLen == 100
DescriptionTag == <<"#", " ", "D", "e", "s", "c", "r", "i", "p", "t", "i", "o", "n", ":">>
CommentPrefix == <<"#", " ">>
Shebang == <<"#", "!">>

\* comment.len() > 10 && comment.len() < 100; str::len counts bytes, one for
\* each character of an ASCII string
length_qualifies(comment) == Len(comment) > MinCommentLen /\ Len(comment) < MaxCommentLen

\* the body of the loop of extract_description: Some(description) when the
\* line makes the function return, None when the loop goes on
description_of_line(line) ==
    LET trimmed == trim(line)
        comment == trim(trim_start_matches_str(trimmed, CommentPrefix))
    IN IF starts_with_str(trimmed, DescriptionTag)
       THEN Some(trim(trim_start_matches_str(trimmed, DescriptionTag)))
       ELSE IF /\ starts_with_str(trimmed, CommentPrefix)
               /\ ~starts_with_str(trimmed, Shebang)
               /\ comment # <<>>
               /\ ~starts_with_str(comment, <<"!">>)
               /\ ~ContainsStr(comment, <<"b", "i", "n", "/">>)
               /\ ~ContainsStr(comment, <<"u", "s", "r", "/">>)
               /\ length_qualifies(comment)
            THEN Some(comment)
       ELSE None

RECURSIVE description_loop(_, _)
description_loop(ls, i) ==
    IF i > Len(ls) THEN None
    ELSE IF description_of_line(ls[i]).kind = "Some" THEN description_of_line(ls[i])
    ELSE description_loop(ls, i + 1)

\* ScriptProvider::extract_description, on what read_to_string returned
extract_description(file) ==
    IF file.kind # "Text" THEN None
    ELSE description_loop(take(lines(file.content), DescriptionLines), 1)

----------------------------------------------------------------------------
(* discovery/npm_provider.rs                                               *)

\* NpmProvider::categorize_script
categorize_script(name) ==
    IF ContainsStr(name, <<"b", "u", "i", "l", "d">>) THEN "Build"
    ELSE IF ContainsStr(name, <<"t", "e", "s", "t">>) THEN "Test"
    ELSE IF ContainsStr(name, <<"l", "i", "n", "t">>) \/ ContainsStr(name, <<"e", "s", "l", "i", "n", "t">>) THEN "Quality"
    ELSE IF ContainsStr(name, <<"f", "o", "r", "m", "a", "t">>) \/ ContainsStr(name, <<"p", "r", "e", "t", "t", "i", "e", "r">>) THEN "Quality"
    ELSE IF ContainsStr(name, <<"t", "y", "p", "e", "c", "h", "e", "c", "k">>) \/ ContainsStr(name, <<"t", "s", "c">>) THEN "Quality"
    ELSE IF ContainsStr(name, <<"d", "e", "v">>)
            \/ ContainsStr(name, <<"s", "t", "a", "r", "t">>)
            \/ ContainsStr(name, <<"s", "e", "r", "v", "e">>)
         THEN "Dev"
    ELSE IF ContainsStr(name, <<"d", "e", "p", "l", "o", "y">>)
            \/ ContainsStr(name, <<"r", "e", "l", "e", "a", "s", "e">>)
            \/ ContainsStr(name, <<"p", "u", "b", "l", "i", "s", "h">>)
         THEN "Deploy"
    ELSE "Scripts"

\* package_json["name"].as_str().unwrap_or("package").trim_start_matches('@').replace('/', "-")
package_name(file) ==
    replace_char(trim_start_matches(IF file.name.kind = "Some" THEN file.name.v
                                    ELSE <<"p", "a", "c", "k", "a", "g", "e">>, "@"),
                 "/", <<"-">>)

\* the command of one script of a package.json
NpmCommand(file, script_name, scope) ==
    DiscoveredCommand(
        <<"n", "p", "m", ".">> \o package_name(file) \o <<".">> \o script_name,
        emoji(categorize_script(script_name)) \o <<" ">> \o script_name
            \o (IF scope.kind = "Workspace" THEN <<" ", "(", "a", "l", "l", ")">>
                ELSE IF scope.kind = "Package" THEN <<" ", "(">> \o scope.name \o <<")">>
                ELSE <<>>),
        categorize_script(script_name),
        <<"R", "u", "n", " ">> \o script_name
            \o (IF scope.kind = "Workspace" THEN <<" ", "s", "c", "r", "i", "p", "t", " ", "i", "n", " ", "a", "l", "l", " ", "p", "a", "c", "k", "a", "g", "e", "s">>
                ELSE IF scope.kind = "Package" THEN <<" ", "s", "c", "r", "i", "p", "t", " ", "i", "n", " ">> \o scope.name
                ELSE <<" ", "s", "c", "r", "i", "p", "t">>),
        <<"p", "a", "c", "k", "a", "g", "e", ".", "j", "s", "o", "n">>,
        scope)

\* NpmProvider::discover_package_scripts on the package.json of one directory
discover_package_scripts(file, scope) ==
    IF ~exists(file) THEN Ok(<<>>)
    ELSE IF file.kind # "Json" THEN ProviderError
    ELSE IF file.scripts.kind = "None" THEN Ok(<<>>)
    ELSE Ok([i \in 1..Len(file.scripts.v) |-> NpmCommand(file, file.scripts.v[i], scope)])

\* NpmProvider::is_available
NpmIsAvailable(d) == cmd_exists(d, "node") /\ exists(d.files["package.json"])

\* the orders in which a loop visits ctx.config.packages, a HashMap: sequences
\* of (package_name, package_config)
PackageOrders(cfg) ==
    {[i \in 1..Len(po) |-> <<po[i], cfg.packages[po[i]]>>] : po \in Perms(DOMAIN cfg.packages)}

\* the loop over ctx.config.packages, visited in the order po; acc is a Result
RECURSIVE NpmPackages(_, _, _, _)
NpmPackages(d, po, i, acc) ==
    IF i > Len(po) \/ acc.kind = "Err" THEN acc
    ELSE LET file == d.package_json[po[i][2].dir_name]
             r == discover_package_scripts(file, Package(po[i][1]))
         IN IF ~exists(file) THEN NpmPackages(d, po, i + 1, acc)
            ELSE IF r.kind = "Err" THEN ProviderError
            ELSE NpmPackages(d, po, i + 1, Ok(acc.v \o r.v))

\* NpmProvider::discover
NpmDiscover(d, po) ==
    LET root == d.files["package.json"]
        has_workspaces == root.workspaces \/ exists(d.files["pnpm-workspace.yaml"])
        rootCmds == IF ~exists(root) THEN Ok(<<>>)
                    ELSE IF root.kind # "Json" THEN ProviderError
                    ELSE discover_package_scripts(root, IF has_workspaces THEN Workspace
                                                        ELSE Global)
    IN NpmPackages(d, po, 1, rootCmds)

----------------------------------------------------------------------------
(* discovery.rs: CommandProvider and DiscoveryEngine                       *)

\* CommandProvider::is_available / CommandProvider::discover of a registered provider
is_available(provider, d) ==
    IF provider = "makefile" THEN MakefileIsAvailable(d) ELSE NpmIsAvailable(d)

provider_discover(provider, d, po) ==
    IF provider = "makefile" THEN MakefileDiscover(d) ELSE NpmDiscover(d, po)

Call(i, provider, method) == [index |-> i, provider |-> provider, method |-> method]

\* the loop of DiscoveryEngine::discover over the providers: st is
\* [commands, calls]
RECURSIVE discover_pass(_, _, _, _, _)

\* the loop calls discover without asking is_available first
discover_pass_unchecked(ps, i, d, po, st) ==
    IF i > Len(ps) THEN st
    ELSE LET found == provider_discover(ps[i], d, po)
         IN discover_pass(ps, i + 1, d, po,
                [commands |-> IF found.kind = "Ok" THEN st.commands \o found.v
                              ELSE st.commands,
                 calls |-> Append(st.calls, Call(i, ps[i], "discover"))])

\* the loop ends at the first provider whose discover fails
discover_pass_aborts(ps, i, d, po, st) ==
    IF i > Len(ps) THEN st
    ELSE LET asked == Append(st.calls, Call(i, ps[i], "is_available"))
             found == provider_discover(ps[i], d, po)
         IN IF ~is_available(ps[i], d)
            THEN discover_pass(ps, i + 1, d, po, [st EXCEPT !.calls = asked])
            ELSE IF found.kind = "Err"
            THEN [st EXCEPT !.calls = Append(asked, Call(i, ps[i], "discover"))]
            ELSE discover_pass(ps, i + 1, d, po,
                    [commands |-> st.commands \o found.v,
                     calls |-> Append(asked, Call(i, ps[i], "discover"))])

discover_pass(ps, i, d, po, st) ==
    IF i > Len(ps) THEN st
    ELSE LET asked == Append(st.calls, Call(i, ps[i], "is_available"))
             found == provider_discover(ps[i], d, po)
         IN IF ~is_available(ps[i], d)
            THEN discover_pass(ps, i + 1, d, po, [st EXCEPT !.calls = asked])
            ELSE discover_pass(ps, i + 1, d, po,
                    [commands |-> IF found.kind = "Ok" THEN st.commands \o found.v
                                  ELSE st.commands,
                     calls |-> Append(asked, Call(i, ps[i], "discover"))])

\* discover runs the providers although the cache is filled
engine_discover_no_cache(c, ps, d, po, log) ==
    LET st == discover_pass(ps, 1, d, po, [commands |-> <<>>, calls |-> log])
    IN [cache |-> Some(st.commands), calls |-> st.calls]

\* DiscoveryEngine::discover: the cache and the call log it leaves; the slice
\* returned is the content of that cache
engine_discover(c, ps, d, po, log) ==
    IF c.kind = "None"
    THEN LET st == discover_pass(ps, 1, d, po, [commands |-> <<>>, calls |-> log])
         IN [cache |-> Some(st.commands), calls |-> st.calls]
    ELSE [cache |-> c, calls |-> log]

\* refresh leaves the cache as it is
refresh_keeps(c) == c

\* DiscoveryEngine::refresh: the cache it leaves
refresh(c) == None

----------------------------------------------------------------------------
(* The discovery engine as a state machine: providers are registered, the  *)
(* commands are discovered and re-discovered, files change on disk         *)

\* number of providers registered with one engine
MaxProviders == 2
\* number of calls of discover on one engine
MaxDiscoverCalls == 3
\* number of calls of refresh on one engine
MaxRefreshes == 1
\* number of changes of the files on disk during the life of one engine
MaxDiskChanges == 1

ProviderKinds == {"makefile", "npm"}

\* Makefiles: two distinct targets, the first one commented; one target named
\* on two lines, the second time with a comment
MakefileTwoTargets == <<"#", "c", "\n", "b", ":", "\n", "a", ":", " ", "b", "\n">>
MakefileSameTarget == <<"a", ":", " ", "b", "\n", "#", "c", "\n", "a", ":", "\n">>

MakefileStates ==
    {Absent, Unreadable, Text(MakefileTwoTargets), Text(MakefileSameTarget)}

\* package.json of the repository root and of the package: absent, not JSON,
\* or a package with one script
RootStates == {Absent, Text(<<"{">>), Json(Some(<<"p">>), Some(<<<<"t">>>>), FALSE)}
PackageStates == {Absent, Json(Some(<<"@", "p">>), Some(<<<<"t">>>>), FALSE)}

ToolSets == {{"make", "node"}, {"node"}}

\* the package directory p/a, without a Cargo.toml
DiscoveryPackage == <<"a">>

Disk(tools, makefile, root, pkg) ==
    [tools |-> tools,
     files |-> [f \in {"Makefile", "makefile", "GNUmakefile", "package.json",
                       "pnpm-workspace.yaml"} |->
                  IF f = "Makefile" THEN makefile
                  ELSE IF f = "package.json" THEN root
                  ELSE Absent],
     package_json |-> [p \in {DiscoveryPackage} |-> pkg],
     cargo_toml |-> [p \in {DiscoveryPackage} |-> Absent]]

NoneUsed == [discovers |-> 0, refreshes |-> 0, changes |-> 0]

InitDisc ==
    /\ config = MkConfig([workspaces |-> [packages |-> <<GoodPattern>>, infra |-> <<>>],
                          services |-> [ports |-> EmptyMap]],
                         <<<<DiscoveryPackage, <<"x">>>>>>, <<Simple(CmdString)>>)
    /\ Idle
    /\ IdleTemplate
    /\ env_vars = EmptyMap
    /\ IdleLibrary
    /\ providers = <<>>
    /\ cache = None
    /\ calls = <<>>
    /\ returned = None
    /\ used = NoneUsed
    /\ \E tools \in ToolSets, makefile \in MakefileStates, root \in RootStates,
          pkg \in PackageStates :
         disk = Disk(tools, makefile, root, pkg)

\* register that also drops the cached list
Register_invalidates ==
    /\ Len(providers) < MaxProviders
    /\ \E provider \in ProviderKinds : providers' = Append(providers, provider)
    /\ cache' = None
    /\ UNCHANGED <<libVars, config, report, built_graph, pc, ctx, opts, queue, results, spawned,
                   running>>
    /\ UNCHANGED <<parVars, tplVars, disk, calls, returned, used>>

\* DiscoveryEngine::register
Register ==
    /\ Len(providers) < MaxProviders
    /\ \E provider \in ProviderKinds : providers' = Append(providers, provider)
    /\ UNCHANGED <<libVars, config, report, built_graph, pc, ctx, opts, queue, results, spawned,
                   running>>
    /\ UNCHANGED <<parVars, tplVars, cache, disk, calls, returned, used>>

\* DiscoveryEngine::discover(ctx)
Discover ==
    /\ ctx = "built"
    /\ used.discovers < MaxDiscoverCalls
    /\ \E po \in PackageOrders(config) :
         LET r == engine_discover(cache, providers, disk, po, calls)
         IN /\ cache' = r.cache
            /\ calls' = r.calls
            /\ returned' = Some(r.cache.v)
    /\ used' = [used EXCEPT !.discovers = @ + 1]
    /\ UNCHANGED <<libVars, config, report, built_graph, pc, ctx, opts, queue, results, spawned,
                   running>>
    /\ UNCHANGED <<parVars, tplVars, providers, disk>>

\* DiscoveryEngine::refresh
Refresh ==
    /\ used.refreshes < MaxRefreshes
    /\ cache' = refresh(cache)
    /\ used' = [used EXCEPT !.refreshes = @ + 1]
    /\ UNCHANGED <<libVars, config, report, built_graph, pc, ctx, opts, queue, results, spawned,
                   running>>
    /\ UNCHANGED <<parVars, tplVars, providers, disk, calls, returned>>

\* a file of the repository is written, replaced or removed
DiskChange ==
    /\ used.changes < MaxDiskChanges
    /\ \/ \E makefile \in MakefileStates \ {disk.files["Makefile"]} :
            disk' = [disk EXCEPT !.files["Makefile"] = makefile]
       \/ \E root \in RootStates \ {disk.files["package.json"]} :
            disk' = [disk EXCEPT !.files["package.json"] = root]
       \/ \E pkg \in PackageStates \ {disk.package_json[DiscoveryPackage]} :
            disk' = [disk EXCEPT !.package_json[DiscoveryPackage] = pkg]
    /\ used' = [used EXCEPT !.changes = @ + 1]
    /\ UNCHANGED <<libVars, config, report, built_graph, pc, ctx, opts, queue, results, spawned,
                   running>>
    /\ UNCHANGED <<parVars, tplVars, providers, cache, calls, returned>>

NextDisc == AppContextNew \/ Register \/ Discover \/ Refresh \/ DiskChange

SpecDisc == InitDisc /\ [][NextDisc]_vars

----------------------------------------------------------------------------
(* resolve_template as called by a user of the library: a template and two *)
(* tables are given, the template is resolved                              *)

\* longest template
MaxTemplateLen == 6

\* the characters of a template: the braces and two letters, which are also
\* the names the tables may hold
TemplateAlphabet == {LBRACE, RBRACE, "a", "b"}
TableNames == {<<"a">>, <<"b">>}

\* the variable tables: values are plain text or text holding braces
VarTables == UNION {[D -> {<<"x">>, <<LBRACE, "b", RBRACE>>}] : D \in SUBSET TableNames}
\* the environment tables
EnvTables == UNION {[D -> {<<"y">>}] : D \in SUBSET TableNames}

InitTpl ==
    /\ config = MkConfig([workspaces |-> [packages |-> <<GoodPattern>>, infra |-> <<>>],
                          services |-> [ports |-> EmptyMap]],
                         <<>>, <<>>)
    /\ Idle
    /\ IdleDiscovery
    /\ IdleLibrary
    /\ template \in SeqsUpTo(TemplateAlphabet, MaxTemplateLen)
    /\ variables \in VarTables
    /\ env_vars \in EnvTables
    /\ resolved = None

\* resolve_template(template, &vars, &env_vars)
ResolveTemplate ==
    /\ pc = "start"
    /\ resolved' = resolve_template(template, variables, env_vars)
    /\ pc' = "resolved"
    /\ UNCHANGED <<libVars, config, report, built_graph, ctx, opts, queue, results, spawned, running>>
    /\ UNCHANGED <<parVars, template, variables, env_vars, discVars>>

NextTpl == ResolveTemplate

SpecTpl == InitTpl /\ [][NextTpl]_vars

----------------------------------------------------------------------------
(* The CmdEntry accessors as called by a user of the library (and by the   *)
(* tests): an entry is built, then one accessor is called on it            *)

\* the entry is the receiver and `name` the argument of variant
AccessorArgs(entry, name) == [entry |-> entry, name |-> name]

\* the accessor called and what it returned
Returned(method, v) == [method |-> method, v |-> v]

\* command strings, variant names and the names asked for
CmdStrings == {CmdString, <<"t">>}
VariantNames == {<<"f">>, <<"w">>}
AskedNames == VariantNames \cup {<<"u">>}

\* HashMap<String, String>: variants maps over a part of the variant names
VariantMaps == UNION {[D -> {<<"m", "f">>, <<"t">>}] : D \in SUBSET VariantNames}

\* dependency lists as written in a Full entry
DepLists == SeqsUpTo({<<"a">>, <<"b", ":", "x">>}, MaxDeps)

CmdEntries ==
    {Simple(c) : c \in CmdStrings}
        \cup {Full(d, ds, vs) : d \in CmdStrings, ds \in DepLists, vs \in VariantMaps}

InitCmd ==
    /\ config = MkConfig([workspaces |-> [packages |-> <<GoodPattern>>, infra |-> <<>>],
                          services |-> [ports |-> EmptyMap]],
                         <<>>, <<>>)
    /\ Idle
    /\ IdleTemplate
    /\ env_vars = EmptyMap
    /\ IdleDiscovery
    /\ args \in {AccessorArgs(e, n) : e \in CmdEntries, n \in AskedNames}
    /\ ret = None

\* the caller's frame: only pc and ret change
CallReturns ==
    /\ pc' = "returned"
    /\ UNCHANGED <<config, report, built_graph, ctx, opts, queue, results, spawned, running>>
    /\ UNCHANGED <<parVars, tplVars, discVars, args>>

\* entry.default_cmd()
CallDefaultCmd ==
    /\ pc = "start"
    /\ ret' = Returned("default_cmd", default_cmd(args.entry))
    /\ CallReturns

\* entry.variant(name)
CallVariant ==
    /\ pc = "start"
    /\ ret' = Returned("variant", variant(args.entry, args.name))
    /\ CallReturns

\* entry.deps()
CallDeps ==
    /\ pc = "start"
    /\ ret' = Returned("deps", deps(args.entry))
    /\ CallReturns

NextCmd == CallDefaultCmd \/ CallVariant \/ CallDeps

SpecCmd == InitCmd /\ [][NextCmd]_vars

----------------------------------------------------------------------------
(* MakefileProvider on one Makefile: the file is written, then parsed by   *)
(* parse_makefile_targets or discovered by MakefileProvider::discover      *)

\* longest one-line Makefile drawn from the alphabet
MaxLineLen == 4
\* most lines of a Makefile put together from the sample lines
MaxMakefileLines == 3

\* the characters the rules of parse_makefile_targets look at, and a letter
MakeAlphabet == {"a", ":", "=", " ", "\t", ".", "_", "#", "$", "("}

CommentBuild == <<"#", " ", "B", "u", "i", "l", "d", " ", "t", "h", "e", " ", "p", "r", "o", "j", "e", "c", "t">>
TargetBuild == <<"b", "u", "i", "l", "d", ":">>
PhonyBuild == <<".", "P", "H", "O", "N", "Y", ":", " ", "b", "u", "i", "l", "d">>
RecipeLine == <<"\t", "c", "c">>
AssignmentWithColon == <<"a", " ", "=", " ", "b", ":", "c">>
Assignment == <<"v", "=", "1">>
CommentShort == <<"#", " ", "c">>
CommentEmpty == <<"#">>

\* lines a Makefile is put together from
SampleLines ==
    {CommentBuild, TargetBuild, PhonyBuild, RecipeLine, AssignmentWithColon,
     Assignment, CommentShort, CommentEmpty, <<>>}

\* the text of a file with the given lines, each ended by a line feed
RECURSIVE Unlines(_)
Unlines(ls) == IF ls = <<>> THEN <<>> ELSE Head(ls) \o <<"\n">> \o Unlines(Tail(ls))

Makefiles ==
    SeqsUpTo(MakeAlphabet, MaxLineLen)
        \cup {Unlines(ls) : ls \in SeqsUpTo(SampleLines, MaxMakefileLines)}

\* the repository holds the Makefile and nothing else; make is installed
MakefileDisk(content) == Disk({"make"}, Text(content), Absent, Absent)

InitMake ==
    /\ config = MkConfig([workspaces |-> [packages |-> <<GoodPattern>>, infra |-> <<>>],
                          services |-> [ports |-> EmptyMap]],
                         <<>>, <<>>)
    /\ Idle
    /\ IdleTemplate
    /\ env_vars = EmptyMap
    /\ IdleDiscovery
    /\ args \in {[content |-> c] : c \in Makefiles}
    /\ ret = None

\* MakefileProvider::parse_makefile_targets(&content)
ParseMakefile ==
    /\ pc = "start"
    /\ ret' = Returned("parse_makefile_targets", parse_makefile_targets(args.content))
    /\ CallReturns

\* MakefileProvider::discover(ctx) in a repository whose Makefile is the file
DiscoverMakefile ==
    /\ pc = "start"
    /\ ret' = Returned("discover", MakefileDiscover(MakefileDisk(args.content)))
    /\ CallReturns

NextMake == ParseMakefile \/ DiscoverMakefile

SpecMake == InitMake /\ [][NextMake]_vars

----------------------------------------------------------------------------
(* ScriptProvider::extract_description on one script file                  *)

\* most sample lines of a script, after its leading blank lines
MaxScriptLines == 3

\* n times the character
RECURSIVE Repeat(_, _)
Repeat(ch, n) == IF n = 0 THEN <<>> ELSE <<ch>> \o Repeat(ch, n - 1)

\* a comment line whose text has n characters
CommentOfLen(n) == CommentPrefix \o Repeat("a", n)

\* the lengths around the two limits
CommentLens ==
    {MinCommentLen - 1, MinCommentLen, MinCommentLen + 1,
     MaxCommentLen - 1, MaxCommentLen, MaxCommentLen + 1}

ShebangLine == <<"#", "!", "/", "b", "i", "n", "/", "s", "h">>
TaggedLine == <<"#", " ", "D", "e", "s", "c", "r", "i", "p", "t", "i", "o", "n", ":", " ", "d">>
CodeLine == <<"e", "c", "h", "o">>

ScriptLines ==
    {CommentOfLen(n) : n \in CommentLens} \cup {ShebangLine, TaggedLine, CodeLine}

\* blank lines before the sample lines: none, or so many that only the first
\* sample line is among the lines looked at
LeadingBlanks == {0, DescriptionLines - 1}

Scripts ==
    {Unlines(Repeat(<<>>, k) \o ls) :
        k \in LeadingBlanks, ls \in SeqsUpTo(ScriptLines, MaxScriptLines)}

InitScript ==
    /\ config = MkConfig([workspaces |-> [packages |-> <<GoodPattern>>, infra |-> <<>>],
                          services |-> [ports |-> EmptyMap]],
                         <<>>, <<>>)
    /\ Idle
    /\ IdleTemplate
    /\ env_vars = EmptyMap
    /\ IdleDiscovery
    /\ args \in {[file |-> Text(c)] : c \in Scripts} \cup {[file |-> Unreadable]}
    /\ ret = None

\* ScriptProvider::extract_description(&path)
ExtractDescription ==
    /\ pc = "start"
    /\ ret' = Returned("extract_description", extract_description(args.file))
    /\ CallReturns

NextScript == ExtractDescription

SpecScript == InitScript /\ [][NextScript]_vars

----------------------------------------------------------------------------
(* What the properties speak about: the dependency graph as declared       *)

\* a validate_config call has returned its report
Validated == pc \in {"validated", "ctx"} /\ report # None

\* the (package, command) pairs the configuration defines
DefinedCommands(cfg) ==
    UNION {{<<p, c>> : c \in DOMAIN cfg.packages[p].cmd} : p \in DOMAIN cfg.packages}

NodeKey(n) == n[1] \o <<":">> \o n[2]

DefinedKeys(cfg) == {NodeKey(n) : n \in DefinedCommands(cfg)}

\* the dependency list an entry declares (a Simple entry declares none)
DeclaredDeps(cfg, n) ==
    LET e == cfg.packages[n[1]].cmd[n[2]]
    IN IF e.kind = "Full" THEN e.deps ELSE <<>>

\* the qualified form of a reference written by a command named c
QualifiedForm(ref, c) ==
    IF \E i \in 1..Len(ref) : ref[i] = ":" THEN ref ELSE ref \o <<":">> \o c

\* the edges of the normalized dependency graph
DeclaredEdges(cfg) ==
    UNION {{<<NodeKey(n), QualifiedForm(DeclaredDeps(cfg, n)[i], n[2])>>
                : i \in 1..Len(DeclaredDeps(cfg, n))}
            : n \in DefinedCommands(cfg)}

\* sequences of distinct elements of S
RECURSIVE DistinctSeqs(_)
DistinctSeqs(S) ==
    {<<>>} \cup UNION {{<<x>> \o q : q \in DistinctSeqs(S \ {x})} : x \in S}

\* the cycles of the graph: n1 -> n2 -> ... -> nk -> n1, listed as <<n1, ..., nk>>
Cycles(cfg) ==
    LET E == DeclaredEdges(cfg)
    IN {q \in DistinctSeqs(DefinedKeys(cfg)) :
            /\ Len(q) >= 1
            /\ \A i \in 1..(Len(q) - 1) : <<q[i], q[i + 1]>> \in E
            /\ <<q[Len(q)], q[1]>> \in E}

ErrorsOfKind(r, kind) == {i \in 1..Len(r.errors) : r.errors[i].kind = kind}

\* the unresolved references: (node, position) whose target is no defined command
Unresolved(cfg) ==
    UNION {{<<n, i>> : i \in {j \in 1..Len(DeclaredDeps(cfg, n)) :
                        QualifiedForm(DeclaredDeps(cfg, n)[j], n[2]) \notin DefinedKeys(cfg)}}
            : n \in DefinedCommands(cfg)}

----------------------------------------------------------------------------
(* Properties of validate_config                                           *)

\* C1: whenever the normalized dependency graph has a cycle (a self-loop
\* included), the report holds a circular-dependency error whose chain is the
\* nodes of some cycle in traversal order, closed by its first node and
\* joined by " -> ".
C1_CycleReported ==
    (Validated /\ Cycles(config) # {}) =>
        \E i \in ErrorsOfKind(report, "CircularDependency") :
            \E q \in Cycles(config) :
                report.errors[i].chain = Join(q \o <<q[1]>>, ARROW)

C1_Witness ==
    /\ Validated
    /\ \E q1, q2 \in Cycles(config) : Len(q1) = 1 /\ Len(q2) >= 2
    /\ ErrorsOfKind(report, "CircularDependency") # {}

\* C2: if every reference names a defined command and the graph is acyclic
\* (diamonds included), the report holds neither an invalid-dependency nor a
\* circular-dependency error.
C2_AcyclicResolvedNoErrors ==
    (Validated /\ Unresolved(config) = {} /\ Cycles(config) = {}) =>
        /\ ErrorsOfKind(report, "InvalidDependency") = {}
        /\ ErrorsOfKind(report, "CircularDependency") = {}

\* C3: an invalid-dependency error naming the referencing package:command and
\* the reference as written is reported if and only if the normalized target
\* names no defined command.
C3_InvalidIffUndefined ==
    Validated =>
        \A n \in DefinedCommands(config) :
            \A i \in 1..Len(DeclaredDeps(config, n)) :
                LET ref == DeclaredDeps(config, n)[i]
                IN (\E k \in ErrorsOfKind(report, "InvalidDependency") :
                        /\ report.errors[k].dep = ref
                        /\ report.errors[k].source = NodeKey(n))
                   <=> (QualifiedForm(ref, n[2]) \notin DefinedKeys(config))

\* C4: a bare reference p declared by command c is handled as p:c, and a
\* qualified reference unchanged: the graph edge is the qualified form, and
\* the existence check is the one applied to the qualified form.
C4_BareIsQualified ==
    Validated =>
        \A n \in DefinedCommands(config) :
            /\ NodeKey(n) \in DOMAIN built_graph
            /\ Len(built_graph[NodeKey(n)]) = Len(DeclaredDeps(config, n))
            /\ \A i \in 1..Len(DeclaredDeps(config, n)) :
                LET ref == DeclaredDeps(config, n)[i]
                    q == QualifiedForm(ref, n[2])
                IN /\ built_graph[NodeKey(n)][i] = q
                   /\ (\E k \in ErrorsOfKind(report, "InvalidDependency") :
                            /\ report.errors[k].dep = ref
                            /\ report.errors[k].source = NodeKey(n))
                      <=> ~dependency_exists(config, q)

C4_Witness ==
    /\ Validated
    /\ \E n \in DefinedCommands(config) :
         \E i \in 1..Len(DeclaredDeps(config, n)) :
            LET ref == DeclaredDeps(config, n)[i]
            IN /\ \A j \in 1..Len(ref) : ref[j] # ":"
               /\ built_graph[NodeKey(n)][i] = ref \o <<":">> \o n[2]
               /\ built_graph[NodeKey(n)][i] \in DefinedKeys(config)
               /\ NodeKey(n) # built_graph[NodeKey(n)][i]
               /\ ErrorsOfKind(report, "InvalidDependency") = {}

\* C5: both checks always run: with k unresolved references and a cycle the
\* report holds k invalid-dependency errors and at least one
\* circular-dependency error.
C5_BothChecksCollected ==
    (Validated /\ Cycles(config) # {}) =>
        /\ Cardinality(ErrorsOfKind(report, "InvalidDependency"))
                = Cardinality(Unresolved(config))
        /\ ErrorsOfKind(report, "CircularDependency") # {}

\* C6: the report is valid exactly when it has no errors, and the context is
\* built exactly when it has no errors, whatever warnings it holds.
C6_InvalidIffErrors ==
    Validated =>
        /\ is_valid(report) <=> (Len(report.errors) = 0)
        /\ (pc = "ctx") => ((ctx = "built") <=> (Len(report.errors) = 0))

C6_Witness ==
    /\ pc = "ctx"
    /\ ctx = "built"
    /\ \E i \in 1..Len(report.warnings) : report.warnings[i].kind = "PortConflict"
    /\ \E i \in 1..Len(report.warnings) : report.warnings[i].kind = "NoPackages"

----------------------------------------------------------------------------
(* Properties of AppContext::new and run_cmd                               *)

\* the keys reachable from the keys in S along declared edges (S included)
RECURSIVE ReachFrom(_, _)
ReachFrom(cfg, S) ==
    LET step == S \cup {e[2] : e \in {d \in DeclaredEdges(cfg) : d[1] \in S}}
    IN IF step = S THEN S ELSE ReachFrom(cfg, step)

\* the keys a node depends on, directly or transitively
TransitiveDeps(cfg, key) ==
    ReachFrom(cfg, {e[2] : e \in {d \in DeclaredEdges(cfg) : d[1] = key}})

\* the nodes involved in a dependency error: on a cycle, or declaring an
\* unresolved reference
ErrorNodes(cfg) ==
    {NodeKey(u[1]) : u \in Unresolved(cfg)}
        \cup UNION {{q[i] : i \in 1..Len(q)} : q \in Cycles(cfg)}

\* a defined command that neither is nor depends on a node involved in an
\* error, in a package none of whose commands is involved
Unaffected(cfg, n) ==
    /\ ReachFrom(cfg, {NodeKey(n)}) \cap ErrorNodes(cfg) = {}
    /\ \A m \in DefinedCommands(cfg) : NodeKey(m) \in ErrorNodes(cfg) => m[1] # n[1]

DependencyErrors(r) ==
    ErrorsOfKind(r, "InvalidDependency") \cup ErrorsOfKind(r, "CircularDependency")

\* C7: with a cycle or an unresolved reference in one part of the
\* configuration, a command of another package that neither is nor depends on
\* an involved node can still be run, so the context it runs in is built.
C7_UnaffectedStillRuns ==
    (/\ pc = "ctx"
     /\ report # None
     /\ DependencyErrors(report) # {}
     /\ \E n \in DefinedCommands(config) : Unaffected(config, n))
        => ctx = "built"

ResultNode(r) == <<r.package, r.command>>

\* n declares a dependency on m
DependsOn(cfg, n, m) == <<NodeKey(n), NodeKey(m)>> \in DeclaredEdges(cfg)

\* the nodes a run has to handle: the candidates and all they depend on
Expected(cfg, o) ==
    ReachFrom(cfg, {NodeKey(<<p, o.cmd_name>>) :
                        p \in {q \in DOMAIN cfg.packages :
                                 /\ o.cmd_name \in DOMAIN cfg.packages[q].cmd
                                 /\ (o.packages = {} \/ q \in o.packages)}})

\* C8: in sequential mode and in waves, in the result list a dependency's
\* result comes before its dependent's, and a process is spawned only when
\* every dependency of its node has already finished (has its result).
C8_DependenciesFirst ==
    /\ \A i, j \in 1..Len(results) :
         DependsOn(config, ResultNode(results[j]), ResultNode(results[i])) => i < j
    /\ \A k \in 1..Len(spawned) :
         \A m \in DefinedCommands(config) :
            DependsOn(config, spawned[k], m) =>
                \E i \in 1..Len(results) :
                    /\ ResultNode(results[i]) = m
                    /\ (\A j \in 1..Len(results) : ResultNode(results[j]) = spawned[k] => i < j)

\* a run in waves is over: a command with two dependencies was skipped for
\* the one that failed in the first wave, and its result comes after that of
\* its other dependency, which ran in the second wave
C8_Witness ==
    /\ pc = "done"
    /\ opts.parallel
    /\ Len(results) = 4
    /\ results[1].outcome.kind = "failed"
    /\ results[2].outcome.kind = "succeeded"
    /\ results[3].outcome.kind = "succeeded"
    /\ results[4].outcome = Skipped(ResultNode(results[1]))
    /\ DependsOn(config, ResultNode(results[4]), ResultNode(results[1]))
    /\ DependsOn(config, ResultNode(results[4]), ResultNode(results[3]))
    /\ DependsOn(config, ResultNode(results[3]), ResultNode(results[2]))
    /\ SeqContains(spawned, ResultNode(results[3]))

\* C9: a node with a failed dependency (direct or transitive; an interrupted
\* child counts as failed) is recorded as skipped and never spawned, and when
\* the run is over every expected node none of whose dependencies failed or
\* was skipped has been executed: it is not skipped, and a process was spawned
\* for it unless its own command string does not resolve.
C9_FailureSkipsDependents ==
    /\ \A j \in 1..Len(results) :
         (\E i \in 1..Len(results) :
              /\ results[i].outcome.kind = "failed"
              /\ NodeKey(ResultNode(results[i]))
                    \in TransitiveDeps(config, NodeKey(ResultNode(results[j]))))
         => /\ results[j].outcome.kind = "skipped"
            /\ ~SeqContains(spawned, ResultNode(results[j]))
    /\ pc = "done" =>
         \A n \in DefinedCommands(config) :
            NodeKey(n) \in Expected(config, opts) =>
               /\ \E j \in 1..Len(results) : ResultNode(results[j]) = n
               /\ (\A i \in 1..Len(results) :
                      DependsOn(config, n, ResultNode(results[i]))
                          => results[i].outcome.kind = "succeeded")
                  => /\ SeqContains(spawned, n) \/ ResolvedCommand(config, n).kind = "Err"
                     /\ \A j \in 1..Len(results) :
                          ResultNode(results[j]) = n => results[j].outcome.kind # "skipped"

C9_Witness ==
    /\ pc = "done"
    /\ \E f, k, r \in 1..Len(results) :
         /\ results[f].outcome = Failed(-1)
         /\ results[k].outcome = Skipped(ResultNode(results[f]))
         /\ f < r
         /\ results[r].outcome.kind = "succeeded"
         /\ SeqContains(spawned, ResultNode(results[r]))

\* C10: no node is spawned twice or has two results, and when the run is over
\* every expected node has exactly one result.
C10_AtMostOnce ==
    /\ \A i, j \in 1..Len(spawned) : spawned[i] = spawned[j] => i = j
    /\ \A i, j \in 1..Len(results) :
         ResultNode(results[i]) = ResultNode(results[j]) => i = j
    /\ pc = "done" =>
         /\ \A n \in DefinedCommands(config) :
               NodeKey(n) \in Expected(config, opts) =>
                  \E j \in 1..Len(results) : ResultNode(results[j]) = n
         /\ \A j \in 1..Len(results) :
               NodeKey(ResultNode(results[j])) \in Expected(config, opts)

C10_Witness ==
    /\ pc = "done"
    /\ Len(results) = 3
    /\ Len(spawned) = 3
    /\ \E d, n, m \in 1..3 :
         /\ n # m
         /\ DependsOn(config, ResultNode(results[n]), ResultNode(results[d]))
         /\ DependsOn(config, ResultNode(results[m]), ResultNode(results[d]))
         /\ results[n].command = opts.cmd_name
         /\ results[m].command = opts.cmd_name

----------------------------------------------------------------------------
(* Properties of parallel runs                                             *)

\* the wave a node belongs to: one more than the latest wave of its dependencies
RECURSIVE WaveOf(_, _)
WaveOf(cfg, n) ==
    LET ds == {m \in DefinedCommands(cfg) : DependsOn(cfg, n, m)}
        w == {WaveOf(cfg, m) : m \in ds}
    IN IF ds = {} THEN 1 ELSE 1 + (CHOOSE k \in w : \A l \in w : l <= k)

\* C11: in parallel mode every node for which a process was launched has all
\* its dependencies recorded as succeeded, and while a process of one wave is
\* still running no node of a later wave has been launched.
C11_WavesRespectDependencies ==
    /\ \A i \in 1..Len(spawned) :
         \A m \in DefinedCommands(config) :
            DependsOn(config, spawned[i], m) =>
               \E j \in 1..Len(results) :
                  /\ ResultNode(results[j]) = m
                  /\ results[j].outcome.kind = "succeeded"
    /\ \A i \in 1..Len(handles) :
         handles[i].outcome.kind = "pending" =>
            \A j \in 1..Len(spawned) :
               WaveOf(config, spawned[j]) <= WaveOf(config, handles[i].node)

C11_Witness ==
    /\ pc = "waves"
    /\ opts.parallel
    /\ Len(spawned) = 3
    /\ WaveOf(config, spawned[1]) = 1
    /\ WaveOf(config, spawned[2]) = 1
    /\ DependsOn(config, spawned[3], spawned[1])
    /\ DependsOn(config, spawned[3], spawned[2])
    /\ \E i \in 1..Len(handles) :
         handles[i].node = spawned[3] /\ handles[i].outcome.kind = "pending"

\* C12: in parallel mode the result list never holds a result for a node whose
\* process is still running, and the result it holds for a node of the current
\* wave is the outcome the completed task left in its own slot.
C12_JoinThenAppend ==
    \A i \in 1..Len(handles) :
        /\ handles[i].outcome.kind = "pending" => ~HasResult(results, handles[i].node)
        /\ HasResult(results, handles[i].node) =>
              ResultOf(results, handles[i].node).outcome = handles[i].outcome

C12_Witness ==
    /\ pc = "waves"
    /\ \E i, j \in 1..Len(handles) :
         /\ handles[i].outcome.kind = "pending"
         /\ SeqContains(spawned, handles[j].node)
         /\ HasResult(results, handles[j].node)

----------------------------------------------------------------------------
(* Properties of template resolution inside a run                          *)

\* the placeholder names of a node's command string found in neither table
MissingNames(cfg, n) ==
    LET names == extract_vars(CommandString(cfg, n))
    IN {names[i] : i \in {j \in 1..Len(names) :
                            /\ names[j] \notin DOMAIN variables
                            /\ names[j] \notin DOMAIN env_vars}}

\* C13: no process is ever spawned for a node whose command string keeps an
\* unresolved placeholder, such a node never succeeds, and when the run is
\* over the failure has blocked only the nodes that depend on it: a node is
\* skipped because of it only if it depends on it, and every expected node
\* that resolves and whose dependencies all succeeded was spawned.
C13_TemplateFailureIsLocal ==
    /\ \A i \in 1..Len(spawned) : MissingNames(config, spawned[i]) = {}
    /\ \A j \in 1..Len(results) :
         MissingNames(config, ResultNode(results[j])) # {} =>
            results[j].outcome.kind # "succeeded"
    /\ pc = "done" =>
         \A n \in DefinedCommands(config) :
            NodeKey(n) \in Expected(config, opts) =>
               /\ (/\ MissingNames(config, n) = {}
                   /\ \A i \in 1..Len(results) :
                         DependsOn(config, n, ResultNode(results[i]))
                             => results[i].outcome.kind = "succeeded")
                  => SeqContains(spawned, n)
               /\ \A j \in 1..Len(results) :
                     (/\ ResultNode(results[j]) = n
                      /\ results[j].outcome.kind = "skipped"
                      /\ MissingNames(config, results[j].outcome.dueTo) # {})
                     => NodeKey(results[j].outcome.dueTo)
                            \in TransitiveDeps(config, NodeKey(n))

C13_Witness ==
    /\ pc = "done"
    /\ \E f, k, r \in 1..Len(results) :
         /\ MissingNames(config, ResultNode(results[f])) # {}
         /\ results[f].outcome.kind = "failed"
         /\ ~SeqContains(spawned, ResultNode(results[f]))
         /\ results[k].outcome = Skipped(ResultNode(results[f]))
         /\ f < r
         /\ results[r].outcome.kind = "succeeded"
         /\ SeqContains(spawned, ResultNode(results[r]))

----------------------------------------------------------------------------
(* Properties of the discovery engine                                      *)

\* what one provider contributes to a pass on disk d: its list if it is
\* available and its discover succeeds, nothing otherwise
Contribution(provider, d, po) ==
    IF is_available(provider, d) /\ provider_discover(provider, d, po).kind = "Ok"
    THEN provider_discover(provider, d, po).v
    ELSE <<>>

\* the concatenation of the contributions of the providers ps, in order
RECURSIVE FreshList(_, _, _)
FreshList(ps, d, po) ==
    IF ps = <<>> THEN <<>>
    ELSE Contribution(Head(ps), d, po) \o FreshList(Tail(ps), d, po)

\* a provider that is available on disk d and whose discover fails
Fails(provider, d, po) ==
    is_available(provider, d) /\ provider_discover(provider, d, po).kind = "Err"

\* the calls a step appends to the log
NewCalls == SubSeq(calls', Len(calls) + 1, Len(calls'))

\* a step that is a call of discover / of refresh
DiscoverStep == used'.discovers # used.discovers
RefreshStep == used'.refreshes # used.refreshes

\* C14: a call of discover on an engine whose cache is filled (no refresh since
\* the last discover) returns what the previous call returned, the cached list,
\* and invokes no provider, whatever the disk holds by now.
C14_CacheStable ==
    [][(cache.kind = "Some" /\ DiscoverStep) =>
          /\ returned' = returned
          /\ returned' = cache
          /\ cache' = cache
          /\ calls' = calls]_vars

C14_Witness ==
    /\ used.discovers = 2
    /\ used.refreshes = 0
    /\ used.changes = 1
    /\ cache.kind = "Some"
    /\ returned = cache
    /\ Len(calls) = 4
    /\ \E po \in PackageOrders(config) : cache.v # FreshList(providers, disk, po)

\* C15: refresh empties the cache and invokes no provider, and a call of
\* discover on an empty cache asks every registered provider again and returns
\* and caches the list computed from the disk as it is now.
C15_RefreshThenRediscover ==
    [][/\ RefreshStep => (cache' = None /\ calls' = calls)
       /\ (cache.kind = "None" /\ DiscoverStep) =>
             /\ \A i \in 1..Len(providers) :
                   \E k \in 1..Len(NewCalls) :
                      NewCalls[k] = Call(i, providers[i], "is_available")
             /\ \E po \in PackageOrders(config) :
                   cache' = Some(FreshList(providers, disk, po))
             /\ returned' = cache']_vars

C15_Witness ==
    /\ used.refreshes = 1
    /\ used.discovers = 2
    /\ used.changes = 1
    /\ Len(providers) = 2
    /\ Len(calls) = 7
    /\ cache.kind = "Some"
    /\ cache.v # <<>>
    /\ returned = cache
    /\ \E po \in PackageOrders(config) : cache.v = FreshList(providers, disk, po)

\* C16: a pass (discover on an empty cache) asks the providers in registration
\* order, is_available first; discover is called on a provider exactly when
\* its is_available returned true, right after that call; and the list is the
\* concatenation of the providers' lists in registration order.
C16_RegistrationOrder ==
    [][(cache.kind = "None" /\ DiscoverStep) =>
          /\ \A k \in 1..(Len(NewCalls) - 1) : NewCalls[k].index <= NewCalls[k + 1].index
          /\ \A i \in 1..Len(providers) :
                Cardinality({k \in 1..Len(NewCalls) :
                                NewCalls[k] = Call(i, providers[i], "is_available")}) = 1
          /\ \A k \in 1..Len(NewCalls) :
                /\ NewCalls[k].index \in 1..Len(providers)
                /\ NewCalls[k].provider = providers[NewCalls[k].index]
                /\ NewCalls[k].method = "discover" =>
                      /\ k > 1
                      /\ NewCalls[k - 1] = Call(NewCalls[k].index, NewCalls[k].provider,
                                                "is_available")
                      /\ is_available(NewCalls[k].provider, disk)
                /\ (NewCalls[k].method = "is_available"
                        /\ is_available(NewCalls[k].provider, disk)) =>
                      /\ k < Len(NewCalls)
                      /\ NewCalls[k + 1] = Call(NewCalls[k].index, NewCalls[k].provider,
                                                "discover")
          /\ \E po \in PackageOrders(config) :
                cache'.v = FreshList(providers, disk, po)]_vars

C16_Witness ==
    /\ used.discovers = 1
    /\ used.changes = 0
    /\ providers = <<"npm", "makefile">>
    /\ cache.kind = "Some"
    /\ Len(cache.v) = 4
    /\ cache.v[1].scope = Global
    /\ cache.v[2].scope = Package(<<"@", "p">>)
    /\ cache.v[3].description = <<"c">>
    /\ Len(calls) = 4

\* the providers of ps whose discover does not fail on disk d, in order
RECURSIVE WithoutFailing(_, _, _)
WithoutFailing(ps, d, po) ==
    IF ps = <<>> THEN <<>>
    ELSE (IF Fails(Head(ps), d, po) THEN <<>> ELSE <<Head(ps)>>)
            \o WithoutFailing(Tail(ps), d, po)

\* C17: a pass in which a provider's discover fails still asks every provider
\* registered after it, and its list is the one the pass would compute with
\* the failing providers not registered at all.
C17_FailingProviderSkipped ==
    [][(cache.kind = "None" /\ DiscoverStep) =>
          \E po \in PackageOrders(config) :
             /\ cache'.v = FreshList(WithoutFailing(providers, disk, po), disk, po)
             /\ \A i \in 1..Len(providers) :
                   \E k \in 1..Len(NewCalls) :
                      /\ NewCalls[k].index = i
                      /\ NewCalls[k].method = "is_available"]_vars

C17_Witness ==
    /\ used.discovers = 1
    /\ used.changes = 0
    /\ providers = <<"npm", "makefile">>
    /\ \E po \in PackageOrders(config) : Fails("npm", disk, po)
    /\ cache.kind = "Some"
    /\ Len(cache.v) = 2
    /\ Len(calls) = 4

\* C18: the list of one pass holds no two commands with the same id.
C18_UniqueIds ==
    cache.kind = "Some" =>
        \A i, j \in 1..Len(cache.v) : cache.v[i].id = cache.v[j].id => i = j

----------------------------------------------------------------------------
(* Properties of resolve_template                                          *)

\* the placeholder names of a template
PlaceholderNames(tpl) == {extract_vars(tpl)[i] : i \in 1..Len(extract_vars(tpl))}

\* the placeholder names found in neither table
Missing(tpl, vars_table, env_table) ==
    {n \in PlaceholderNames(tpl) : n \notin DOMAIN vars_table /\ n \notin DOMAIN env_table}

\* s holds a {name} token: an opening brace, at least one character other
\* than a closing brace, a closing brace
HasToken(s) ==
    \E i, j \in 1..Len(s) :
        /\ i + 1 < j
        /\ s[i] = LBRACE
        /\ s[j] = RBRACE
        /\ \A k \in (i + 1)..(j - 1) : s[k] # RBRACE

\* C19: with every placeholder name of the template in one of the tables,
\* resolve_template succeeds and the string it returns holds no {name} token.
C19_NoTokenLeft ==
    (resolved.kind # "None" /\ Missing(template, variables, env_vars) = {}) =>
        /\ resolved.kind = "Ok"
        /\ ~HasToken(resolved.v)

\* C20: resolve_template fails exactly when a placeholder name of the template
\* is in neither table, and then the error lists the names that are in neither
\* table, no other name, and carries no string.
C20_FailsIffMissing ==
    resolved.kind # "None" =>
        /\ resolved.kind = "Err" <=> Missing(template, variables, env_vars) # {}
        /\ resolved.kind = "Err" =>
              /\ {resolved.missing[i] : i \in 1..Len(resolved.missing)}
                    = Missing(template, variables, env_vars)
              /\ resolved.names = Join(resolved.missing, <<",", " ">>)
              /\ DOMAIN resolved = {"kind", "missing", "names"}

C20_Witness ==
    /\ resolved.kind = "Err"
    /\ Len(extract_vars(template)) = 2
    /\ Len(resolved.missing) = 1
    /\ \E n \in PlaceholderNames(template) : n \in DOMAIN variables
    /\ \E n \in PlaceholderNames(template) : n \in DOMAIN env_vars

\* the two tables as one: the explicit table's entry wherever it has one, the
\* environment's entry for the other names
Merged(vars_table, env_table) ==
    [n \in DOMAIN vars_table \cup DOMAIN env_table |->
        IF n \in DOMAIN vars_table THEN vars_table[n] ELSE env_table[n]]

\* the template that is one placeholder of the name n and nothing else
Placeholder(n) == <<LBRACE>> \o n \o <<RBRACE>>

\* C21: a placeholder name defined in both tables is substituted with the
\* explicit table's value, and the environment's value is used only for a name
\* the explicit table lacks: the call returns what it returns with the one
\* table that holds the explicit entries over the environment's, and a
\* template that is a single placeholder resolves to the explicit value when
\* there is one and to the environment's value otherwise.
C21_ExplicitBeforeEnvironment ==
    resolved.kind # "None" =>
        /\ resolved = resolve_template(template, Merged(variables, env_vars), EmptyMap)
        /\ \A n \in TableNames :
              template = Placeholder(n) =>
                 /\ n \in DOMAIN variables => resolved = Ok(variables[n])
                 /\ (n \notin DOMAIN variables /\ n \in DOMAIN env_vars) =>
                        resolved = Ok(env_vars[n])

C21_Witness ==
    /\ resolved = Ok(<<"x", "y">>)
    /\ template = Placeholder(<<"a">>) \o Placeholder(<<"b">>)
    /\ <<"a">> \in DOMAIN variables /\ <<"a">> \in DOMAIN env_vars
    /\ variables[<<"a">>] # env_vars[<<"a">>]
    /\ <<"b">> \notin DOMAIN variables /\ <<"b">> \in DOMAIN env_vars

----------------------------------------------------------------------------
(* Properties of the CmdEntry accessors                                    *)

\* C22: on a Full entry, variant(name) returns the string stored under the
\* name in the variants map when the map has the name, and the entry's
\* default string otherwise.
C22_VariantOrDefault ==
    (ret # None /\ ret.method = "variant" /\ args.entry.kind = "Full") =>
        /\ args.name \in DOMAIN args.entry.variants =>
               ret.v = args.entry.variants[args.name]
        /\ args.name \notin DOMAIN args.entry.variants => ret.v = args.entry.default

C22_Witness ==
    /\ ret # None /\ ret.method = "variant" /\ args.entry.kind = "Full"
    /\ args.name \in DOMAIN args.entry.variants
    /\ ret.v = args.entry.variants[args.name]
    /\ ret.v # args.entry.default
    /\ DOMAIN args.entry.variants # {args.name}

\* what the accessor `method` returns on the entry
Access(method, entry, name) ==
    IF method = "default_cmd" THEN default_cmd(entry)
    ELSE IF method = "variant" THEN variant(entry, name)
    ELSE deps(entry)

\* C23: every accessor returns on Simple(s) what it returns on
\* Full{default: s, deps: [], variants: {}}: default_cmd() and variant(name)
\* return s for every name, and deps() is empty.
C23_SimpleIsBareFull ==
    (ret # None /\ args.entry.kind = "Simple") =>
        /\ ret.v = Access(ret.method, Full(args.entry.s, <<>>, NoVariants), args.name)
        /\ ret.method \in {"default_cmd", "variant"} => ret.v = args.entry.s
        /\ ret.method = "deps" => ret.v = <<>>

C23_Witness ==
    /\ ret # None /\ args.entry.kind = "Simple"
    /\ ret.method = "variant"
    /\ args.name \in VariantNames
    /\ ret.v = args.entry.s

----------------------------------------------------------------------------
(* Properties of MakefileProvider                                          *)

\* the build-file target rule: the line is not indented, holds a ':' that
\* comes before any '=', does not start with '.' or '_', and holds neither
\* "$(" nor "${"
IsTargetLine(line) ==
    /\ ~starts_with(line, " ") /\ ~starts_with(line, "\t")
    /\ Contains(line, ":")
    /\ Contains(line, "=") => find(line, ":") < find(line, "=")
    /\ ~starts_with(line, ".") /\ ~starts_with(line, "_")
    /\ ~ContainsStr(line, <<"$", "(">>) /\ ~ContainsStr(line, <<"$", "{">>)

TargetLines(content) == {i \in 1..Len(lines(content)) : IsTargetLine(lines(content)[i])}

\* C24: parse_makefile_targets finds one target for each line that meets the
\* build-file target rule and none for any other line; a line whose first '='
\* comes before its first ':' yields no target.
C24_TargetRule ==
    (ret # None /\ ret.method = "parse_makefile_targets") =>
        Len(ret.v) = Cardinality(TargetLines(args.content))

\* the line is a '#' comment line / the text of the comment
IsCommentLine(line) ==
    /\ ~starts_with(line, " ") /\ ~starts_with(line, "\t")
    /\ starts_with(trim(line), "#")
CommentText(line) == trim(trim_start_matches(trim(line), "#"))

\* the line is one for which a target is recorded
YieldsTarget(line) ==
    parse_line([targets |-> <<>>, current_comment |-> None], line).targets # <<>>

\* the comment lines that immediately and contiguously precede line i: the
\* text of the nearest one that has a text, or None
RECURSIVE PrecedingComment(_, _)
PrecedingComment(ls, i) ==
    IF i = 1 \/ ~IsCommentLine(ls[i - 1]) THEN None
    ELSE IF CommentText(ls[i - 1]) # <<>> THEN Some(CommentText(ls[i - 1]))
    ELSE PrecedingComment(ls, i - 1)

\* the description of the target of line i
ExpectedDescription(ls, i) ==
    IF PrecedingComment(ls, i).kind = "Some" THEN PrecedingComment(ls, i).v
    ELSE <<"R", "u", "n", " ", "m", "a", "k", "e", " ", "t", "a", "r", "g", "e", "t", ":", " ">> \o first_word(SubSeq(trim(ls[i]), 1, find(trim(ls[i]), ":") - 1)).v

\* the indices of the lines that yield a target, in order
RECURSIVE TargetIndices(_, _)
TargetIndices(ls, i) ==
    IF i > Len(ls) THEN <<>>
    ELSE (IF YieldsTarget(ls[i]) THEN <<i>> ELSE <<>>) \o TargetIndices(ls, i + 1)

\* the build file of the scenario: the commented target, and the .PHONY line
\* before the comment or after the target
ScenarioFiles ==
    {Unlines(<<PhonyBuild, CommentBuild, TargetBuild>>),
     Unlines(<<CommentBuild, TargetBuild, PhonyBuild>>)}

\* C25: the description of every discovered target is the text of the comment
\* lines that immediately and contiguously precede its line, and the default
\* text when no comment line immediately precedes it; the build file with the
\* commented target build and a .PHONY line yields exactly one command,
\* make.build, described "Build the project".
C25_DescriptionFromPrecedingComments ==
    (ret # None /\ ret.method = "discover") =>
        LET ls == lines(args.content)
            at == TargetIndices(ls, 1)
        IN /\ ret.v.kind = "Ok"
           /\ Len(ret.v.v) = Len(at)
           /\ \A k \in 1..Len(at) :
                 ret.v.v[k].description = ExpectedDescription(ls, at[k])
           /\ args.content \in ScenarioFiles =>
                 /\ Len(ret.v.v) = 1
                 /\ ret.v.v[1].id = <<"m", "a", "k", "e", ".", "b", "u", "i", "l", "d">>
                 /\ ret.v.v[1].description = <<"B", "u", "i", "l", "d", " ", "t", "h", "e", " ", "p", "r", "o", "j", "e", "c", "t">>

----------------------------------------------------------------------------
(* Properties of ScriptProvider                                            *)

\* a comment line other than the shebang, and its text
IsScriptComment(line) ==
    starts_with(trim(line), "#") /\ ~starts_with_str(trim(line), Shebang)
ScriptCommentText(line) == trim(trim_start_matches(trim(line), "#"))

\* the comment line qualifies: its text is 10 to 100 characters long
Qualifies(line) ==
    /\ IsScriptComment(line)
    /\ Len(ScriptCommentText(line)) >= 10
    /\ Len(ScriptCommentText(line)) <= 100

\* C26: the description extract_description returns is the text of the first
\* comment line, other than the shebang, whose text is 10 to 100 characters
\* long, both limits included, and there is none when no line qualifies.
C26_FirstQualifyingComment ==
    (ret # None /\ ret.method = "extract_description" /\ args.file.kind = "Text") =>
        LET ls == lines(args.file.content)
            q == {i \in 1..Len(ls) : Qualifies(ls[i])}
        IN IF q = {} THEN ret.v = None
           ELSE ret.v = Some(ScriptCommentText(ls[CHOOSE i \in q : \A j \in q : i <= j]))

----------------------------------------------------------------------------
(* Properties of the cycle search of validate_config                       *)

\* the nodes that lie on some cycle
OnCycle(cfg) == UNION {{q[i] : i \in 1..Len(q)} : q \in Cycles(cfg)}

\* the graph nodes from which some cycle is reachable
ReachesCycle(cfg) ==
    {k \in DefinedKeys(cfg) : ReachFrom(cfg, {k}) \cap OnCycle(cfg) # {}}

\* the lead-in nodes: a cycle is reachable from them and they lie on none
LeadIn(cfg) == ReachesCycle(cfg) \ OnCycle(cfg)

\* the chain as it is reported for the cycle q
ChainOf(q) == Join(q \o <<q[1]>>, ARROW)

\* C27: the chain of every circular-dependency error is a cycle of the graph
\* and nothing more: distinct nodes of which each depends on the next and the
\* last on the first, closed by the first node, so that no node leading into
\* the cycle is in it.
C27_ChainIsCycle ==
    Validated =>
        \A i \in ErrorsOfKind(report, "CircularDependency") :
            \E q \in Cycles(config) :
                /\ report.errors[i].chain = ChainOf(q)
                /\ \A j \in 1..Len(q) : q[j] \notin LeadIn(config)

C27_Witness ==
    /\ Validated
    /\ LeadIn(config) # {}
    /\ \E q \in Cycles(config) : Len(q) >= 2
    /\ Cardinality(ErrorsOfKind(report, "CircularDependency")) >= 3

\* the nodes of the chains of the circular-dependency errors
ReportedNodes(cfg, r) ==
    UNION {{q[j] : j \in 1..Len(q)} :
             q \in {c \in Cycles(cfg) :
                      \E i \in ErrorsOfKind(r, "CircularDependency") :
                          r.errors[i].chain = ChainOf(c)}}

\* C28: every node that lies on some cycle of the graph is in the chain of at
\* least one circular-dependency error of the report.
C28_EveryCycleNodeReported ==
    Validated => OnCycle(config) \subseteq ReportedNodes(config, report)

\* the graph has a single cycle (listed once from each of its nodes)
SingleCycle(cfg) ==
    /\ Cycles(cfg) # {}
    /\ Cardinality(Cycles(cfg)) = Cardinality(OnCycle(cfg))
    /\ \A q \in Cycles(cfg) : Len(q) = Cardinality(OnCycle(cfg))

\* C29: the report holds as many circular-dependency errors as the graph has
\* nodes from which a cycle is reachable: one for each node of a cycle, one
\* for each node that leads into one, none for any other node.
C29_OneErrorPerReachingNode ==
    Validated =>
        /\ Cardinality(ErrorsOfKind(report, "CircularDependency"))
              = Cardinality(ReachesCycle(config))
        /\ SingleCycle(config) =>
              Cardinality(ErrorsOfKind(report, "CircularDependency"))
                 = Cardinality(OnCycle(config)) + Cardinality(LeadIn(config))

C29_Witness ==
    /\ Validated
    /\ SingleCycle(config)
    /\ Cardinality(OnCycle(config)) = 2
    /\ Cardinality(LeadIn(config)) = 1
    /\ Cardinality(DefinedKeys(config) \ ReachesCycle(config)) = 0
    /\ Cardinality(ErrorsOfKind(report, "CircularDependency")) = 3

----------------------------------------------------------------------------
(* Properties of DiscoveryEngine::register                                 *)

\* a step that is a call of register
RegisterStep == providers' # providers

\* the registered providers no pass has asked yet
Unasked == {i \in 1..Len(providers) : \A k \in 1..Len(calls) : calls[k].index # i}

\* C30: register appends the provider and leaves the cache, the list handed
\* out and the call log as they are; with a provider registered after the
\* cache was filled, discover still returns the cached list and calls no
\* provider; and the pass that follows a refresh asks the provider registered
\* last and puts its commands at the end of the list.
C30_RegisterKeepsCache ==
    [][/\ RegisterStep =>
             /\ Len(providers') = Len(providers) + 1
             /\ SubSeq(providers', 1, Len(providers)) = providers
             /\ cache' = cache
             /\ returned' = returned
             /\ calls' = calls
       /\ (cache.kind = "Some" /\ Unasked # {} /\ DiscoverStep) =>
             /\ returned' = cache
             /\ cache' = cache
             /\ calls' = calls
       /\ (cache.kind = "None" /\ providers # <<>> /\ DiscoverStep) =>
             LET last == providers[Len(providers)]
                 front == SubSeq(providers, 1, Len(providers) - 1)
             IN /\ \E k \in 1..Len(NewCalls) :
                      NewCalls[k] = Call(Len(providers), last, "is_available")
                /\ \E po \in PackageOrders(config) :
                      returned'.v = FreshList(front, disk, po) \o Contribution(last, disk, po)
      ]_vars

C30_Witness ==
    /\ used.discovers = 2
    /\ used.refreshes = 0
    /\ used.changes = 0
    /\ Len(providers) = 2
    /\ Unasked = {2}
    /\ cache.kind = "Some"
    /\ returned = cache
    /\ \E po \in PackageOrders(config) :
          /\ Contribution(providers[1], disk, po) # <<>>
          /\ Contribution(providers[2], disk, po) # <<>>
          /\ cache.v = Contribution(providers[1], disk, po)

====
